---- MODULE Spec2Model ----
(***************************************************************************)
(* Video prompt generator: the natural-language prompt assembler, the JSON *)
(* prompt assembler, the variation generator and the fragment selectors.   *)
(*                                                                         *)
(* Text.  A JavaScript string is modelled as a sequence of atoms (TLA+     *)
(* strings) whose concatenation is the string; "" is << >>.  Atoms are cut *)
(* at every boundary an operation or a property looks at: the characters   *)
(* of a duration up to its unit, the phrases a property searches for, the  *)
(* separators the assembler inserts.  A table fragment is one atom.        *)
(*                                                                         *)
(* Optional values.  A value that may be undefined (NaN for a number) is a *)
(* sequence of length at most one: << >> is undefined, <<v>> is v.  An     *)
(* optional property of a config is present iff it is in the DOMAIN of the *)
(* config record.                                                          *)
(***************************************************************************)
EXTENDS Integers, Sequences, FiniteSets, TLC

VARIABLES
    config,      \* the request body accepted by promptConfigSchema
    seed,        \* the state of the random source for this request
    op,          \* which operation has run: "idle", "nl", "json", "nlvar", "jsonvar"
    result,      \* outcome of the natural-language generatePromptFromConfig
    jsonResult,  \* outcome of the JSON generatePromptFromConfig
    variations,  \* outcome of generatePromptVariations
    storage,     \* the MemStorage instance: prompts, templates and the two id counters
    clock,       \* what new Date() returns, in milliseconds since the store was built
    requests,    \* the requests the server has received, each with its handler's position
    uiConfig,    \* PromptGenerator: the config state
    edits,       \* the number of changes the user has made to the config
    isGenerating,            \* PromptGenerator: the isGenerating state
    generateMutation,        \* PromptConfig: the configs of the generate mutations in flight
    uiPrompt,                \* PromptGenerator: the generatedPrompt state, undefined for ""
    isGeneratingVariations,  \* PromptOutput: the isGeneratingVariations state
    variationsMutation,      \* PromptOutput: the configs of the variations mutations in flight
    shownVariations,         \* PromptOutput: the variations state
    toast,                   \* useToast: the title of the toast shown last, if any
    searchQuery,             \* TemplateLibrary: the searchQuery state
    selectedCategory,        \* TemplateLibrary: the selectedCategory state
    searchFetch,             \* TemplateLibrary: the search text of the query function in flight, if any
    searchResults            \* TemplateLibrary: the data of the search query

assemblerVars == <<config, seed, op, result, jsonResult, variations>>
serverVars == <<storage, clock, requests>>
generatorVars ==
    <<uiConfig, edits, isGenerating, generateMutation, uiPrompt,
      isGeneratingVariations, variationsMutation, shownVariations, toast>>
libraryVars == <<searchQuery, selectedCategory, searchFetch, searchResults>>
clientVars == <<generatorVars, libraryVars>>
vars ==
    <<config, seed, op, result, jsonResult, variations, storage, clock, requests,
      uiConfig, edits, isGenerating, generateMutation, uiPrompt,
      isGeneratingVariations, variationsMutation, shownVariations, toast,
      searchQuery, selectedCategory, searchFetch, searchResults>>

(***************************************************************************)
(* Bounds                                                                  *)
(***************************************************************************)
\* Math.random() returns k / RandDen for some k in 0 .. RandDen-1.
RandDen == 3
\* Number of slopes of the random streams (stream i-th draw is a + b*i).
RandSlopes == 2

(***************************************************************************)
(* Text helpers                                                            *)
(***************************************************************************)
Undefined == << >>
Some(v) == <<v>>
IsDefined(o) == o # << >>
EmptyText == << >>

\* Array.prototype.join on an array of strings with a separator string.
RECURSIVE JoinTexts(_, _)
JoinTexts(texts, sep) ==
    IF texts = << >> THEN EmptyText
    ELSE IF Len(texts) = 1 THEN texts[1]
    ELSE texts[1] \o sep \o JoinTexts(Tail(texts), sep)

\* haystack.includes(needle), on atoms.
Contains(haystack, needle) ==
    \E i \in 0 .. (Len(haystack) - Len(needle)) :
        \A j \in 1 .. Len(needle) : haystack[i + j] = needle[j]

\* haystack.endsWith(needle), on atoms.
EndsWith(haystack, needle) ==
    /\ Len(needle) <= Len(haystack)
    /\ \A j \in 1 .. Len(needle) :
          haystack[Len(haystack) - Len(needle) + j] = needle[j]

StartsWith(haystack, needle) ==
    /\ Len(needle) <= Len(haystack)
    /\ \A j \in 1 .. Len(needle) : haystack[j] = needle[j]

\* A template literal `${x}` of a possibly undefined string.
Interpolate(o) == IF IsDefined(o) THEN o[1] ELSE <<"undefined">>

(***************************************************************************)
(* Content tables.  Each table is an object literal: keys to arrays of     *)
(* fragments.  Only the rows of the keys the model draws are written out;  *)
(* DOMAIN of a table restricted to the model's categories and styles is    *)
(* the source's key set restricted the same way.                           *)
(***************************************************************************)
\* const subjects, rows of the categories the model draws (others are never looked up)
subjects ==
    ("Sports & Athletics" :> <<
        <<"Athletic woman in her late 20s with shoulder-length blonde hair pulled back, wearing blue and white team jersey, focused intense eyes, muscular build from years of training">>,
        <<"Young male soccer player, early 20s with short dark hair, tan complexion, wearing red team uniform with sweat glistening, determined expression">>,
        <<"Professional tennis player, mid-30s woman with curly brown hair, wearing white athletic wear, graceful yet powerful stance, years of experience evident in her confident demeanor">>
    >>)
    @@ ("Nature & Wildlife" :> <<
        <<"Majestic golden eagle with 6-foot wingspan, sharp amber eyes, dark brown and golden feathers catching sunlight, powerful talons extended in flight">>,
        <<"Mountain wildlife photographer, 40s bearded man in earth-tone outdoor gear, weathered hands holding professional camera, patient and observant demeanor">>,
        <<"Wild grizzly bear, massive 800-pound male with thick brown fur, intelligent dark eyes, powerful shoulders and distinctive hump, moving with surprising grace">>
    >>)
    @@ ("Technology" :> <<
        <<"Software developer, focused woman in her 30s with logical mind and problem-solving skills, wearing comfortable casual clothing, multiple monitors reflecting code">>,
        <<"AI researcher, brilliant 40s man with innovative thinking and ethical considerations, wearing business casual attire, bridging human and artificial intelligence">>,
        <<"Tech entrepreneur, dynamic woman in her 20s with visionary leadership and startup energy, wearing modern professional clothing, changing world through innovation">>
    >>)

\* const actions (it has no "Nature & Wildlife" row)
actions ==
    ("Sports & Athletics" :> <<
        <<"performs spectacular diving catch during crucial game moment">>,
        <<"sprints across field under stadium lights, dodging defenders">>,
        <<"executes perfect bicycle kick in slow motion">>,
        <<"leaps for slam dunk with dramatic lighting">>,
        <<"serves tennis ball with powerful precision">>,
        <<"completes gymnastics routine with graceful landing">>
    >>)
    @@ ("Technology" :> <<
        <<"works intently with cutting-edge equipment">>,
        <<"codes complex algorithm on multiple screens">>,
        <<"assembles precision electronic components">>,
        <<"demonstrates innovative prototype device">>,
        <<"troubleshoots advanced robotic system">>,
        <<"presents breakthrough research to colleagues">>
    >>)

\* const wardrobe (it has no "Technology" row)
wardrobe ==
    ("Sports & Athletics" :> <<
        <<"Professional team jersey, athletic shorts, high-performance cleats">>,
        <<"Racing suit with sponsor logos, protective helmet, specialized footwear">>,
        <<"Training gear with moisture-wicking fabric, compression elements">>
    >>)
    @@ ("Nature & Wildlife" :> <<
        <<"Outdoor expedition gear with weather-resistant materials">>,
        <<"Field researcher attire with practical pockets and earth tones">>,
        <<"Safari-style clothing with sun protection and utility features">>
    >>)

\* const locations
locations ==
    ("Sports & Athletics" :> <<
        <<"Professional stadium with packed stands and field lighting">>,
        <<"Training facility with modern equipment and clean lines">>,
        <<"Outdoor sports complex with natural grass and scenic backdrop">>
    >>)
    @@ ("Nature & Wildlife" :> <<
        <<"Pristine wilderness with untouched natural beauty">>,
        <<"National park setting with diverse ecosystem elements">>,
        <<"Remote outdoor location far from civilization">>
    >>)

\* const environments
environments ==
    ("Sports & Athletics" :> <<
        <<"High-energy atmosphere with crowd noise and competitive tension">>,
        <<"Professional setting with pristine conditions and optimal lighting">>,
        <<"Training environment with focused intensity and athletic equipment">>
    >>)
    @@ ("Nature & Wildlife" :> <<
        <<"Natural soundscape with wind, water, and wildlife ambiance">>,
        <<"Pristine environment showcasing untouched natural beauty">>,
        <<"Ecosystem in balance with seasonal changes and natural rhythms">>
    >>)

\* const props
props ==
    ("Sports & Athletics" :> <<
        <<"Professional sports equipment, team banners, scoreboards">>,
        <<"Training apparatus, coaching tools, athletic accessories">>,
        <<"Competition markers, timing equipment, safety gear">>
    >>)
    @@ ("Nature & Wildlife" :> <<
        <<"Natural elements like rocks, branches, water features">>,
        <<"Scientific equipment for field research and observation">>,
        <<"Camping gear, hiking equipment, outdoor survival tools">>
    >>)

\* const ambient
ambient ==
    ("Sports & Athletics" :> <<
        <<"Stadium crowd noise, whistle sounds, equipment impacts">>,
        <<"Training facility acoustics with echo and equipment noise">>,
        <<"Outdoor sports sounds with natural environment audio">>
    >>)
    @@ ("Nature & Wildlife" :> <<
        <<"Natural soundscape with wind, water, and animal calls">>,
        <<"Wilderness audio with rustling leaves and distant sounds">>,
        <<"Ecosystem sounds reflecting natural harmony and seasonal changes">>
    >>)

\* const lighting, keyed by style
lighting ==
    ("Cinematic" :> <<
        <<"Dramatic three-point lighting with deep shadows and strong contrast">>,
        <<"Golden hour natural lighting with warm practical sources">>,
        <<"Professional film lighting with controlled shadows and highlights">>
    >>)
    @@ ("Documentary" :> <<
        <<"Available light with minimal artificial enhancement for authenticity">>,
        <<"Natural lighting that preserves realistic atmosphere">>,
        <<"Documentary-style lighting that supports truth and realism">>
    >>)
    @@ ("Commercial" :> <<
        <<"Polished professional lighting with even coverage and product focus">>,
        <<"High-key lighting setup for commercial appeal and clarity">>,
        <<"Studio-quality lighting with perfect exposure and color balance">>
    >>)
    @@ ("Artistic" :> <<
        <<"Creative lighting design with experimental shadows and color temperature">>,
        <<"Artistic illumination that supports visual storytelling and mood">>,
        <<"Innovative lighting approach with unique angles and creative techniques">>
    >>)

\* const palettes, keyed by style
palettes ==
    ("Cinematic" :> <<
        <<"Warm amber and deep blue contrast with rich shadows">>,
        <<"Desaturated earth tones with selective color highlights">>,
        <<"High contrast black and white with selective golden accents">>
    >>)
    @@ ("Documentary" :> <<
        <<"Natural color palette preserving authentic environmental tones">>,
        <<"Realistic color grading with minimal saturation enhancement">>,
        <<"True-to-life colors that support documentary authenticity">>
    >>)
    @@ ("Commercial" :> <<
        <<"Bright, saturated colors with high energy and appeal">>,
        <<"Clean color palette with strong brand-friendly tones">>,
        <<"Polished color grading with commercial shine and clarity">>
    >>)
    @@ ("Artistic" :> <<
        <<"Experimental color treatment with creative artistic vision">>,
        <<"Unique color combinations that support visual storytelling">>,
        <<"Creative color grading with artistic flair and innovation">>
    >>)

\* routes.ts: const subjects
jsonSubjects ==
    ("Sports & Athletics" :> <<
        <<"Professional athlete in peak physical condition, mid-30s with athletic build and focused intensity">>,
        <<"Young competitor with determined expression, wearing team colors and protective gear">>,
        <<"Experienced sports figure with weathered features showing years of dedication">>
    >>)
    @@ ("Nature & Wildlife" :> <<
        <<"Wildlife subject in natural habitat, displaying raw power and instinctive behavior">>,
        <<"Natural phenomenon showcasing the beauty and force of the elements">>,
        <<"Outdoor enthusiast adapted to wilderness environment">>
    >>)

\* routes.ts: const actions
jsonActions ==
    ("Sports & Athletics" :> <<
        <<"Executes perfect technique with athletic precision and competitive intensity">>,
        <<"Demonstrates peak physical performance in crucial competitive moment">>,
        <<"Shows athletic mastery through fluid movement and strategic thinking">>
    >>)
    @@ ("Nature & Wildlife" :> <<
        <<"Displays natural instincts and survival behaviors in wild habitat">>,
        <<"Demonstrates adaptation to natural environment and seasonal changes">>,
        <<"Shows harmony between creature and pristine natural setting">>
    >>)

\* routes.ts: getPromptTemplates(), the action of each template
promptTemplates ==
    ("Sports & Athletics" :> <<
        <<"performs spectacular diving catch during crucial game moment">>,
        <<"sprints across field under stadium lights, dodging defenders">>,
        <<"executes perfect bicycle kick in slow motion">>,
        <<"leaps for slam dunk with dramatic lighting">>
    >>)
    @@ ("Nature & Wildlife" :> <<
        <<"soars through mountain valley with wings spread wide">>,
        <<"crashes against rocky cliffs in slow motion during sunset">>,
        <<"sprints across African savanna in pursuit of prey">>,
        <<"moves through snow-covered forest during twilight">>
    >>)

\* const tones, keyed by style
tones ==
    ("Cinematic" :> <<
        <<"dramatic and immersive">>, <<"epic and heroic">>, <<"intimate and emotional">>
    >>)
    @@ ("Documentary" :> <<
        <<"authentic and truthful">>, <<"observational and respectful">>,
        <<"educational and informative">>
    >>)
    @@ ("Commercial" :> <<
        <<"polished and appealing">>, <<"energetic and engaging">>,
        <<"professional and trustworthy">>
    >>)
    @@ ("Artistic" :> <<
        <<"creative and expressive">>, <<"experimental and unique">>,
        <<"visually striking and memorable">>
    >>)

\* const times
times ==
    << <<"dawn">>, <<"early morning">>, <<"mid-morning">>, <<"noon">>, <<"afternoon">>,
       <<"golden hour">>, <<"dusk">>, <<"evening">>, <<"night">>, <<"late night">> >>

\* const complexities
complexities == <<"Simple", "Medium", "Complex">>

DefaultCategory == "Sports & Athletics"
DefaultStyle == "Cinematic"

\* String.prototype.toLowerCase on one atom: the fragments it is applied to.
LowerAtom(a) ==
    CASE 
         a = "Professional team jersey, athletic shorts, high-performance cleats"
           -> "professional team jersey, athletic shorts, high-performance cleats"
      [] a = "Racing suit with sponsor logos, protective helmet, specialized footwear"
           -> "racing suit with sponsor logos, protective helmet, specialized footwear"
      [] a = "Training gear with moisture-wicking fabric, compression elements"
           -> "training gear with moisture-wicking fabric, compression elements"
      [] a = "Outdoor expedition gear with weather-resistant materials"
           -> "outdoor expedition gear with weather-resistant materials"
      [] a = "Field researcher attire with practical pockets and earth tones"
           -> "field researcher attire with practical pockets and earth tones"
      [] a = "Safari-style clothing with sun protection and utility features"
           -> "safari-style clothing with sun protection and utility features"
      [] a = "Professional sports equipment, team banners, scoreboards"
           -> "professional sports equipment, team banners, scoreboards"
      [] a = "Training apparatus, coaching tools, athletic accessories"
           -> "training apparatus, coaching tools, athletic accessories"
      [] a = "Competition markers, timing equipment, safety gear"
           -> "competition markers, timing equipment, safety gear"
      [] a = "Natural elements like rocks, branches, water features"
           -> "natural elements like rocks, branches, water features"
      [] a = "Scientific equipment for field research and observation"
           -> "scientific equipment for field research and observation"
      [] a = "Camping gear, hiking equipment, outdoor survival tools"
           -> "camping gear, hiking equipment, outdoor survival tools"
      [] a = "Epic " -> "epic "
      [] a = "Sports" -> "sports"
      [] a = "SPORTS" -> "sports"
      [] a = " Action" -> " action"
      [] a = " & Athletics" -> " & athletics"
      [] a = "Urban" -> "urban"
      [] a = " Chase Scene" -> " chase scene"
      [] a = " & Street" -> " & street"
      [] a = "Nature" -> "nature"
      [] a = " Documentary" -> " documentary"
      [] a = "Wildlife" -> "wildlife"
      [] a = "WILDLIFE" -> "wildlife"
      [] a = "Vehicle" -> "vehicle"
      [] a = " Stunts" -> " stunts"
      [] a = "Drama" -> "drama"
      [] a = "tic Weather" -> "tic weather"
      [] a = "Human " -> "human "
      [] a = "High-energy athletic moments with cinematic flair"
           -> "high-energy athletic moments with cinematic flair"
      [] a = "Fast-paced city action with dynamic camera work"
           -> "fast-paced city action with dynamic camera work"
      [] a = "High-octane automotive action sequences"
           -> "high-octane automotive action sequences"
      [] a = "Storm and weather-related dynamic scenes"
           -> "storm and weather-related dynamic scenes"
      [] a = "Emotional moments with cinematic storytelling"
           -> "emotional moments with cinematic storytelling"
      [] OTHER -> a

toLowerCase(text) == [i \in DOMAIN text |-> LowerAtom(text[i])]

(***************************************************************************)
(* Property lookup on an object literal and the selectors                  *)
(***************************************************************************)
\* Properties every object literal inherits from Object.prototype, each a
\* function whose .length is given; indexing a function with a number gives
\* undefined.
ObjectPrototypeLength ==
    ("constructor" :> 1) @@ ("toString" :> 0) @@ ("valueOf" :> 0)
    @@ ("hasOwnProperty" :> 1)

\* table[key]: an own row, an inherited function, or undefined.
GetProperty(table, key) ==
    IF key \in DOMAIN table
    THEN [kind |-> "array", length |-> Len(table[key]), items |-> table[key]]
    ELSE IF key \in DOMAIN ObjectPrototypeLength
    THEN [kind |-> "function", length |-> ObjectPrototypeLength[key], items |-> << >>]
    ELSE [kind |-> "undefined", length |-> 0, items |-> << >>]

\* a || b on property values: every array and function is truthy.
OrElse(a, b) == IF a.kind = "undefined" THEN b ELSE a

\* Math.floor(Math.random() * length), Math.random() being r / RandDen.
RandomIndex(r, length) == (r * length) \div RandDen

\* A slip that indexes from one: value[Math.floor(Math.random() * value.length) + 1].
PickRandomOneBased(value, r) ==
    IF value.kind = "array" /\ RandomIndex(r, value.length) + 1 < value.length
    THEN Some(value.items[RandomIndex(r, value.length) + 2])
    ELSE Undefined

\* value[Math.floor(Math.random() * value.length)]
PickRandom(value, r) ==
    IF value.kind = "array" /\ RandomIndex(r, value.length) < value.length
    THEN Some(value.items[RandomIndex(r, value.length) + 1])
    ELSE Undefined

\* The shape shared by all selectors:
\*   const row = table[key] || table[fallback]; return row[floor(random * row.length)]
SelectFragment(table, key, fallback, r) ==
    PickRandom(OrElse(GetProperty(table, key), GetProperty(table, fallback)), r)

generateSubjectDescription(category, r) == SelectFragment(subjects, category, DefaultCategory, r)
generateActionDescription(category, r) == SelectFragment(actions, category, DefaultCategory, r)
generateWardrobeDescription(category, r) == SelectFragment(wardrobe, category, DefaultCategory, r)
generateLocationDescription(category, r) == SelectFragment(locations, category, DefaultCategory, r)
generateEnvironmentDescription(category, r) == SelectFragment(environments, category, DefaultCategory, r)
generatePropsDescription(category, r) == SelectFragment(props, category, DefaultCategory, r)
generateAmbientDescription(category, r) == SelectFragment(ambient, category, DefaultCategory, r)
generateLightingDescription(style, r) == SelectFragment(lighting, style, DefaultStyle, r)
generateToneDescription(style, r) == SelectFragment(tones, style, DefaultStyle, r)
generateColorPalette(style, r) == SelectFragment(palettes, style, DefaultStyle, r)
getRandomTimeOfDay(r) == times[RandomIndex(r, Len(times)) + 1]
getRandomComplexity(r) == complexities[RandomIndex(r, Len(complexities)) + 1]

(***************************************************************************)
(* Numbers in text                                                         *)
(***************************************************************************)
DigitValue ==
    ("0" :> 0) @@ ("1" :> 1) @@ ("2" :> 2) @@ ("3" :> 3) @@ ("4" :> 4)
    @@ ("5" :> 5) @@ ("6" :> 6) @@ ("7" :> 7) @@ ("8" :> 8) @@ ("9" :> 9)

DigitAtom == <<"0", "1", "2", "3", "4", "5", "6", "7", "8", "9">>

IsDigit(a) == a \in DOMAIN DigitValue

\* text.split(sep)[0]: the text before the first occurrence of the atom sep.
RECURSIVE SplitFirst(_, _)
SplitFirst(text, sep) ==
    IF text = << >> \/ Head(text) = sep THEN << >>
    ELSE <<Head(text)>> \o SplitFirst(Tail(text), sep)

\* The value of the longest prefix of digits of text, continuing from acc.
RECURSIVE DigitsValue(_, _)
DigitsValue(text, acc) ==
    IF text = << >> \/ ~IsDigit(Head(text)) THEN acc
    ELSE DigitsValue(Tail(text), 10 * acc + DigitValue[Head(text)])

RECURSIVE SkipSpaces(_)
SkipSpaces(text) ==
    IF text # << >> /\ Head(text) = " " THEN SkipSpaces(Tail(text)) ELSE text

\* parseInt(text): leading blanks, an optional sign, then digits; NaN (undefined)
\* when no digit follows.  An atom that is not a digit, a sign or a blank stands
\* for text that starts with some other character.
parseInt(text) ==
    LET t == SkipSpaces(text)
        signed == t # << >> /\ Head(t) \in {"+", "-"}
        d == IF signed THEN Tail(t) ELSE t
        magnitude == DigitsValue(d, 0)
    IN  IF d = << >> \/ ~IsDigit(Head(d)) THEN Undefined
        ELSE IF signed /\ Head(t) = "-" THEN Some(0 - magnitude)
        ELSE Some(magnitude)

\* n || fallback for a number n: NaN and 0 are falsy.
NumberOr(n, fallback) == IF IsDefined(n) /\ n[1] # 0 THEN n[1] ELSE fallback

\* String(n) for an integer n.
RECURSIVE NaturalToText(_)
NaturalToText(n) ==
    IF n < 10 THEN <<DigitAtom[n + 1]>>
    ELSE NaturalToText(n \div 10) \o <<DigitAtom[(n % 10) + 1]>>

NumberToText(n) == IF n < 0 THEN <<"-">> \o NaturalToText(0 - n) ELSE NaturalToText(n)

\* parseInt(config.duration.split('-')[0]) || 5
DefaultDialogueSeconds == 5
DialogueSeconds(duration) == NumberOr(parseInt(SplitFirst(duration, "-")), DefaultDialogueSeconds)

(***************************************************************************)
(* Config access                                                           *)
(***************************************************************************)
Has(c, field) == field \in DOMAIN c

\* Truthiness of c.field for an optional boolean.
Flag(c, field) == Has(c, field) /\ c[field]

\* Truthiness of c.group?.field.
GroupFlag(c, group, field) == Has(c, group) /\ c[group][field]

\* The random source: the site-th draw of the call-th assembler call of a
\* request is (a + b * index) mod RandDen over RandDen.
Sites ==
    <<"subject", "action", "wardrobe", "location", "time", "environment", "props",
      "lighting", "tone", "ambient", "palette", "complexity", "template">>
SiteIndex(site) == CHOOSE i \in 1 .. Len(Sites) : Sites[i] = site
Random(sd, call, site) ==
    (sd.a + sd.b * ((call - 1) * Len(Sites) + SiteIndex(site))) % RandDen

(***************************************************************************)
(* The natural-language assembler                                          *)
(***************************************************************************)
Part(kind, text) == [kind |-> kind, text |-> Some(text)]
OptionalPart(kind, o) == [kind |-> kind, text |-> o]

\* An array element in join(): undefined becomes the empty string.
JoinElement(o) == IF IsDefined(o) THEN o[1] ELSE EmptyText

\* promptParts.join(" ")
JoinParts(parts) == JoinTexts([i \in DOMAIN parts |-> JoinElement(parts[i].text)], <<" ">>)

\* A slip that falls back to the Cinematic sentence for an unknown style, as the
\* style tables do.
StyleSentenceWithFallback(style) ==
    IF style = "Documentary"
    THEN << Part("style", <<"Captured with authentic documentary-style cinematography and natural lighting.">>) >>
    ELSE IF style = "Commercial"
    THEN << Part("style", <<"Filmed with polished commercial production quality and professional standards.">>) >>
    ELSE IF style = "Artistic"
    THEN << Part("style", <<"Created with artistic vision and innovative visual techniques.">>) >>
    ELSE << Part("style", <<"Shot with cinematic production values and dramatic visual storytelling.">>) >>

StyleSentence(style) ==
    IF style = "Cinematic"
    THEN << Part("style", <<"Shot with cinematic production values and dramatic visual storytelling.">>) >>
    ELSE IF style = "Documentary"
    THEN << Part("style", <<"Captured with authentic documentary-style cinematography and natural lighting.">>) >>
    ELSE IF style = "Commercial"
    THEN << Part("style", <<"Filmed with polished commercial production quality and professional standards.">>) >>
    ELSE IF style = "Artistic"
    THEN << Part("style", <<"Created with artistic vision and innovative visual techniques.">>) >>
    ELSE << >>

ComplexitySentence(complexity) ==
    IF complexity = "Complex"
    THEN << Part("complexity", <<"Intricate composition with multiple layered visual elements and detailed staging.">>) >>
    ELSE << >>

\* A slip that drops the "10-15 seconds" branch.
durationContextNoExtended(duration) ==
    IF duration = <<"3", "-", "5", " seconds">> THEN <<"in a quick, impactful moment">>
    ELSE IF duration = <<"5", "-", "1", "0", " seconds">> THEN <<"unfolding over several dramatic seconds">>
    ELSE <<"building through a complete narrative arc">>

durationContext(duration) ==
    IF duration = <<"3", "-", "5", " seconds">> THEN <<"in a quick, impactful moment">>
    ELSE IF duration = <<"5", "-", "1", "0", " seconds">> THEN <<"unfolding over several dramatic seconds">>
    ELSE IF duration = <<"1", "0", "-", "1", "5", " seconds">> THEN <<"developing through an extended sequence">>
    ELSE <<"building through a complete narrative arc">>

ClosingSentence ==
    <<"Photorealistic quality with stunning detail", " and professional video production standards", ".">>

\* A slip that pushes the lighting effect before the weather effect.
EffectsLightingFirst(c) ==
    (IF c.elements.dynamic_lighting THEN << <<"dramatic lighting changes">> >> ELSE << >>)
    \o (IF c.elements.weather_effects THEN << <<"dynamic weather effects">> >> ELSE << >>)
    \o (IF c.elements.camera_movement THEN << <<"fluid camera movement">> >> ELSE << >>)

\* The legacy effects, in the order they are pushed.
Effects(c) ==
    (IF c.elements.weather_effects THEN << <<"dynamic weather effects">> >> ELSE << >>)
    \o (IF c.elements.dynamic_lighting THEN << <<"dramatic lighting changes">> >> ELSE << >>)
    \o (IF c.elements.camera_movement THEN << <<"fluid camera movement">> >> ELSE << >>)

\* shotDetails, for a config that has a shot group.
ShotDetails(shot) ==
    << (IF shot.composition # EmptyText THEN shot.composition ELSE <<"Medium shot">>) >>
    \o (IF shot.camera_motion # EmptyText /\ shot.camera_motion # <<"static">>
        THEN << shot.camera_motion \o <<" camera movement">> >> ELSE << >>)
    \o (IF shot.frame_rate # EmptyText
        THEN << <<"shot at ">> \o shot.frame_rate >> ELSE << >>)
    \o (IF shot.film_grain THEN << <<"with fine film grain texture">> >> ELSE << >>)

\* sceneElements; an undefined environment is pushed as it is.
SceneElements(c, sd, call) ==
    (IF GroupFlag(c, "scene", "include_location")
     THEN << Some(<<"Location: ">>
                  \o Interpolate(generateLocationDescription(c.category, Random(sd, call, "location")))) >>
     ELSE << >>)
    \o (IF GroupFlag(c, "scene", "include_time_of_day")
        THEN << Some(<<"Time: ">> \o getRandomTimeOfDay(Random(sd, call, "time"))) >>
        ELSE << >>)
    \o (IF GroupFlag(c, "scene", "include_environment")
        THEN << generateEnvironmentDescription(c.category, Random(sd, call, "environment")) >>
        ELSE << >>)

\* cinematographyElements, the effects entry included.
CinematographyElements(c, sd, call) ==
    (IF Flag(c, "enable_advanced_details") /\ GroupFlag(c, "cinematography", "include_lighting")
     THEN << <<"Lighting: ">>
             \o Interpolate(generateLightingDescription(c.style, Random(sd, call, "lighting"))) >>
     ELSE << >>)
    \o (IF Flag(c, "enable_advanced_details") /\ GroupFlag(c, "cinematography", "include_tone")
        THEN << <<"Overall tone: ">>
                \o Interpolate(generateToneDescription(c.style, Random(sd, call, "tone"))) >>
        ELSE << >>)
    \o (IF Effects(c) # << >>
        THEN << <<"Enhanced with: ">> \o JoinTexts(Effects(c), <<", ">>) >>
        ELSE << >>)

\* A slip that pushes the complexity sentence before the style sentence.
ClosingPartsComplexityFirst(c) ==
    ComplexitySentence(c.complexity)
    \o StyleSentence(c.style)
    \o << Part("duration",
               <<"Scene duration: ">> \o c.duration \o <<", ">> \o durationContext(c.duration) \o <<".">>),
          Part("closing", ClosingSentence) >>

\* The style and complexity modifiers, the duration sentence and the closing
\* sentence, in push order.
ClosingParts(c) ==
    StyleSentence(c.style)
    \o ComplexitySentence(c.complexity)
    \o << Part("duration",
               <<"Scene duration: ">> \o c.duration \o <<", ">> \o durationContext(c.duration) \o <<".">>),
          Part("closing", ClosingSentence) >>

WardrobeGate(c) == Flag(c, "enable_scene_details") /\ GroupFlag(c, "subject", "include_wardrobe")
\* A slip that forgets the section toggle.
ShotGateUntoggled(c) == Has(c, "shot")
ShotGate(c) == Flag(c, "enable_shot_details") /\ Has(c, "shot")
PropsGate(c) == Flag(c, "enable_scene_details") /\ GroupFlag(c, "visual_details", "include_props")
AmbientGate(c) == Flag(c, "enable_advanced_details") /\ GroupFlag(c, "audio", "include_ambient")
DialogueGate(c) == Flag(c, "enable_advanced_details") /\ GroupFlag(c, "audio", "include_dialogue")
\* A slip that forgets the section toggle.
PaletteGateUntoggled(c) == Flag(c, "color_palette")
PaletteGate(c) == Flag(c, "enable_advanced_details") /\ Flag(c, "color_palette")

\* The parts pushed on promptParts, in push order, when no step throws.
PromptParts(c, sd, call) ==
    LET wardrobeDesc == generateWardrobeDescription(c.category, Random(sd, call, "wardrobe"))
        sceneElements == SceneElements(c, sd, call)
        propsDesc == generatePropsDescription(c.category, Random(sd, call, "props"))
        cinematographyElements == CinematographyElements(c, sd, call)
    IN  << OptionalPart("subject",
                generateSubjectDescription(c.category, Random(sd, call, "subject"))),
           OptionalPart("action",
                generateActionDescription(c.category, Random(sd, call, "action"))) >>
        \o (IF WardrobeGate(c)
            THEN << Part("wardrobe", <<"wearing ">> \o toLowerCase(wardrobeDesc[1])) >>
            ELSE << >>)
        \o (IF ShotGate(c)
            THEN << Part("shot", JoinTexts(ShotDetails(c.shot), <<", ">>) \o <<".">>) >>
            ELSE << >>)
        \o (IF Flag(c, "enable_scene_details") /\ sceneElements # << >>
            THEN << Part("scene",
                         JoinTexts([i \in DOMAIN sceneElements |-> JoinElement(sceneElements[i])],
                                   <<". ">>) \o <<".">>) >>
            ELSE << >>)
        \o (IF PropsGate(c)
            THEN << Part("props", <<"Scene includes: ">> \o toLowerCase(propsDesc[1]) \o <<".">>) >>
            ELSE << >>)
        \o (IF cinematographyElements # << >>
            THEN << Part("cinematography", JoinTexts(cinematographyElements, <<". ">>) \o <<".">>) >>
            ELSE << >>)
        \o (IF AmbientGate(c)
            THEN << Part("ambient",
                         <<"Audio: ">>
                         \o Interpolate(generateAmbientDescription(c.category, Random(sd, call, "ambient")))
                         \o <<".">>) >>
            ELSE << >>)
        \o (IF DialogueGate(c)
            THEN << Part("dialogue",
                         <<"Features ">> \o NumberToText(DialogueSeconds(c.duration))
                         \o <<"-second dialogue segment with documentary-style narration.">>) >>
            ELSE << >>)
        \o (IF PaletteGate(c)
            THEN << Part("palette",
                         <<"Color palette: ">>
                         \o Interpolate(generateColorPalette(c.style, Random(sd, call, "palette")))
                         \o <<".">>) >>
            ELSE << >>)
        \o ClosingParts(c)

\* undefined.toLowerCase() raises a TypeError: the wardrobe and the props steps.
Throws(c, sd, call) ==
    \/ /\ WardrobeGate(c)
       /\ ~IsDefined(generateWardrobeDescription(c.category, Random(sd, call, "wardrobe")))
    \/ /\ PropsGate(c)
       /\ ~IsDefined(generatePropsDescription(c.category, Random(sd, call, "props")))

NoResult == [threw |-> FALSE, parts |-> << >>, text |-> EmptyText]
Thrown == [threw |-> TRUE, parts |-> << >>, text |-> EmptyText]

\* generatePromptFromConfig of the natural-language variant: the promise is
\* rejected when a step throws, else resolved with promptParts.join(" ").
generatePromptFromConfig(c, sd, call) ==
    IF Throws(c, sd, call) THEN Thrown
    ELSE [threw |-> FALSE,
          parts |-> PromptParts(c, sd, call),
          text |-> JoinParts(PromptParts(c, sd, call))]

(***************************************************************************)
(* The JSON assembler (server/routes.ts)                                   *)
(*                                                                         *)
(* An object is a function from property names to optional values;         *)
(* JSON.stringify drops the properties whose value is undefined.           *)
(***************************************************************************)
EmptyObject == << >>
Property(name, o) == name :> o
PropertyIf(cond, name, o) == IF cond THEN name :> o ELSE EmptyObject

\* JSON.stringify of one object level: undefined-valued properties vanish.
Stringify(object) ==
    [k \in {p \in DOMAIN object : IsDefined(object[p])} |-> object[k][1]]

\* s || fallback on strings: the empty string is falsy.
TextOr(c, group, field, fallback) ==
    IF Has(c, group) /\ c[group][field] # EmptyText THEN c[group][field] ELSE fallback

JsonShot(c) ==
    Property("composition", Some(TextOr(c, "shot", "composition", <<"Medium shot">>)))
    @@ Property("camera_motion", Some(TextOr(c, "shot", "camera_motion", <<"handheld">>)))
    @@ Property("frame_rate", Some(TextOr(c, "shot", "frame_rate", <<"24 fps">>)))
    @@ PropertyIf(GroupFlag(c, "shot", "film_grain"), "film_grain", Some(<<"fine Kodak grain overlay">>))

JsonSubject(c, sd, call) ==
    PropertyIf(GroupFlag(c, "subject", "include_description"), "description",
               SelectFragment(jsonSubjects, c.category, DefaultCategory, Random(sd, call, "subject")))
    @@ PropertyIf(GroupFlag(c, "subject", "include_wardrobe"), "wardrobe",
                  generateWardrobeDescription(c.category, Random(sd, call, "wardrobe")))

JsonScene(c, sd, call) ==
    PropertyIf(GroupFlag(c, "scene", "include_location"), "location",
               generateLocationDescription(c.category, Random(sd, call, "location")))
    @@ PropertyIf(GroupFlag(c, "scene", "include_time_of_day"), "time_of_day",
                  Some(getRandomTimeOfDay(Random(sd, call, "time"))))
    @@ PropertyIf(GroupFlag(c, "scene", "include_environment"), "environment",
                  generateEnvironmentDescription(c.category, Random(sd, call, "environment")))

\* categoryTemplates[floor(random * length)]: the chosen template, given by its action.
baseTemplate(c, sd, call) ==
    SelectFragment(promptTemplates, c.category, DefaultCategory, Random(sd, call, "template"))

\* baseTemplate.action || generateActionDescription(config.category)
JsonAction(c, sd, call) ==
    IF baseTemplate(c, sd, call)[1] # EmptyText THEN Some(baseTemplate(c, sd, call)[1])
    ELSE SelectFragment(jsonActions, c.category, DefaultCategory, Random(sd, call, "action"))

JsonVisualDetails(c, sd, call) ==
    PropertyIf(GroupFlag(c, "visual_details", "include_action"), "action", JsonAction(c, sd, call))
    @@ PropertyIf(GroupFlag(c, "visual_details", "include_props"), "props",
                  generatePropsDescription(c.category, Random(sd, call, "props")))

JsonEffects(c) == PropertyIf(Effects(c) # << >>, "effects", Some(JoinTexts(Effects(c), <<", ">>)))

JsonCinematography(c, sd, call) ==
    PropertyIf(GroupFlag(c, "cinematography", "include_lighting"), "lighting",
               generateLightingDescription(c.style, Random(sd, call, "lighting")))
    @@ PropertyIf(GroupFlag(c, "cinematography", "include_tone"), "tone",
                  generateToneDescription(c.style, Random(sd, call, "tone")))
    @@ JsonEffects(c)

JsonAudio(c, sd, call) ==
    PropertyIf(GroupFlag(c, "audio", "include_ambient"), "ambient",
               generateAmbientDescription(c.category, Random(sd, call, "ambient")))
    @@ PropertyIf(GroupFlag(c, "audio", "include_dialogue"), "dialogue",
                  Some([style |-> <<"natural conversation">>,
                        voice |-> <<"documentary style (warm, measured, authoritative)">>,
                        duration |-> DialogueSeconds(c.duration)]))

JsonSettings ==
    [background_music |-> FALSE, transitions |-> <<"none">>, loop |-> FALSE]

\* jsonPrompt as it stands before JSON.stringify; a section that was never
\* assigned is absent.
JsonPrompt(c, sd, call) ==
    Property("shot", Some(Stringify(JsonShot(c))))
    @@ PropertyIf(GroupFlag(c, "subject", "include_description")
                    \/ GroupFlag(c, "subject", "include_wardrobe"),
                  "subject", Some(Stringify(JsonSubject(c, sd, call))))
    @@ PropertyIf(GroupFlag(c, "scene", "include_location")
                    \/ GroupFlag(c, "scene", "include_time_of_day")
                    \/ GroupFlag(c, "scene", "include_environment"),
                  "scene", Some(Stringify(JsonScene(c, sd, call))))
    @@ PropertyIf(GroupFlag(c, "visual_details", "include_action")
                    \/ GroupFlag(c, "visual_details", "include_props"),
                  "visual_details", Some(Stringify(JsonVisualDetails(c, sd, call))))
    @@ PropertyIf(GroupFlag(c, "cinematography", "include_lighting")
                    \/ GroupFlag(c, "cinematography", "include_tone")
                    \/ Effects(c) # << >>,
                  "cinematography", Some(Stringify(JsonCinematography(c, sd, call))))
    @@ PropertyIf(GroupFlag(c, "audio", "include_ambient")
                    \/ GroupFlag(c, "audio", "include_dialogue"),
                  "audio", Some(Stringify(JsonAudio(c, sd, call))))
    @@ PropertyIf(Flag(c, "color_palette"), "color_palette",
                  generateColorPalette(c.style, Random(sd, call, "palette")))
    @@ Property("settings", Some(JsonSettings))

\* undefined.action raises a TypeError when the action is asked for.
JsonThrows(c, sd, call) ==
    /\ GroupFlag(c, "visual_details", "include_action")
    /\ ~IsDefined(baseTemplate(c, sd, call))

NoJson == [threw |-> FALSE, json |-> EmptyObject]
JsonThrown == [threw |-> TRUE, json |-> EmptyObject]

\* generatePromptFromConfig of routes.ts: JSON.stringify(jsonPrompt, null, 2),
\* kept as the object the text denotes.
generateJsonPromptFromConfig(c, sd, call) ==
    IF JsonThrows(c, sd, call) THEN JsonThrown
    ELSE [threw |-> FALSE, json |-> Stringify(JsonPrompt(c, sd, call))]

(***************************************************************************)
(* The variation generator                                                 *)
(***************************************************************************)
\* { ...config, complexity: getRandomComplexity() } of the call-th iteration.
variantConfig(c, sd, call) ==
    [c EXCEPT !.complexity = getRandomComplexity(Random(sd, call, "complexity"))]

\* The count passed by the /api/prompts/variations route.
VariationCount == 3

NoVariations == [threw |-> FALSE, items |-> << >>]

\* generatePromptVariations over the natural-language assembler: the promise
\* is rejected as soon as one assembler call throws.
generatePromptVariations(c, sd, count) ==
    IF \E i \in 1 .. count : generatePromptFromConfig(variantConfig(c, sd, i), sd, i).threw
    THEN [threw |-> TRUE, items |-> << >>]
    ELSE [threw |-> FALSE,
          items |-> [i \in 1 .. count |->
                        generatePromptFromConfig(variantConfig(c, sd, i), sd, i).text]]

\* generatePromptVariations of routes.ts, over the JSON assembler.
generateJsonPromptVariations(c, sd, count) ==
    IF \E i \in 1 .. count : generateJsonPromptFromConfig(variantConfig(c, sd, i), sd, i).threw
    THEN [threw |-> TRUE, items |-> << >>]
    ELSE [threw |-> FALSE,
          items |-> [i \in 1 .. count |->
                        generateJsonPromptFromConfig(variantConfig(c, sd, i), sd, i).json]]

(***************************************************************************)
(* Request bodies: the configs promptConfigSchema accepts that the model   *)
(* draws.  Every required field is a string (or the elements record);      *)
(* every optional field may be absent.                                     *)
(***************************************************************************)
\* Number of basic-field combinations and of optional-group combinations.
MaxBasic == 8
MaxGroups == 9

\* "Underwater" is in no table; "Technology" only in subjects and actions;
\* "constructor" is in no table but names an inherited property.
Categories == <<"Technology", "Nature & Wildlife", "Underwater", "constructor">>
Styles == <<"Cinematic", "Documentary", "Noir">>
Durations ==
    << <<"5", "-", "1", "0", " seconds">>,
       <<"1", "0", "-", "1", "5", " seconds">>,
       <<"0", "-", "5", " seconds">>,
       <<"long">>,
       <<"3", "-", "5", " seconds">> >>
ComplexityValues == <<"Simple", "Medium", "Complex">>

Nth(list, n) == list[(n % Len(list)) + 1]
Bit(n, k) == (n \div k) % 2 = 1

\* The i-th combination of the required fields.
BasicConfig(i) ==
    [category |-> Nth(Categories, i),
     style |-> Nth(Styles, i),
     duration |-> Nth(Durations, i),
     complexity |-> Nth(ComplexityValues, i \div 2),
     elements |-> [weather_effects |-> Bit(i, 1),
                   dynamic_lighting |-> Bit(i, 2),
                   camera_movement |-> Bit(i, 4)]]

\* An optional property: absent, or present with one of the values.
Optional(name, values) == {EmptyObject} \cup {name :> v : v \in values}

Toggles ==
    {s @@ t @@ u : s \in Optional("enable_shot_details", BOOLEAN),
                   t \in Optional("enable_scene_details", BOOLEAN),
                   u \in Optional("enable_advanced_details", BOOLEAN)}

\* The values of an optional group, as 0 (absent) or 1 + the index of a value.
Choice(name, values, n) ==
    IF n % (Len(values) + 1) = 0 THEN EmptyObject
    ELSE name :> values[n % (Len(values) + 1)]

ShotValues ==
    << [composition |-> <<"Wide shot">>, camera_motion |-> <<"handheld">>,
        frame_rate |-> <<"24 fps">>, film_grain |-> TRUE],
       [composition |-> <<"Close-up">>, camera_motion |-> <<"static">>,
        frame_rate |-> <<"60 fps">>, film_grain |-> FALSE],
       [composition |-> EmptyText, camera_motion |-> EmptyText,
        frame_rate |-> EmptyText, film_grain |-> FALSE] >>
SubjectValues ==
    << [include_description |-> TRUE, include_wardrobe |-> TRUE],
       [include_description |-> TRUE, include_wardrobe |-> FALSE],
       [include_description |-> FALSE, include_wardrobe |-> TRUE],
       [include_description |-> FALSE, include_wardrobe |-> FALSE] >>
SceneValues ==
    << [include_location |-> TRUE, include_time_of_day |-> TRUE, include_environment |-> TRUE],
       [include_location |-> TRUE, include_time_of_day |-> FALSE, include_environment |-> FALSE],
       [include_location |-> FALSE, include_time_of_day |-> TRUE, include_environment |-> FALSE],
       [include_location |-> FALSE, include_time_of_day |-> FALSE, include_environment |-> TRUE],
       [include_location |-> FALSE, include_time_of_day |-> FALSE, include_environment |-> FALSE],
       [include_location |-> TRUE, include_time_of_day |-> FALSE, include_environment |-> TRUE],
       [include_location |-> TRUE, include_time_of_day |-> TRUE, include_environment |-> FALSE],
       [include_location |-> FALSE, include_time_of_day |-> TRUE, include_environment |-> TRUE] >>
VisualValues ==
    << [include_action |-> TRUE, include_props |-> TRUE],
       [include_action |-> FALSE, include_props |-> FALSE],
       [include_action |-> TRUE, include_props |-> FALSE],
       [include_action |-> FALSE, include_props |-> TRUE] >>
CinematographyValues ==
    << [include_lighting |-> TRUE, include_tone |-> TRUE],
       [include_lighting |-> FALSE, include_tone |-> TRUE],
       [include_lighting |-> FALSE, include_tone |-> FALSE],
       [include_lighting |-> TRUE, include_tone |-> FALSE] >>
AudioValues ==
    << [include_ambient |-> TRUE, include_dialogue |-> TRUE],
       [include_ambient |-> FALSE, include_dialogue |-> TRUE],
       [include_ambient |-> TRUE, include_dialogue |-> FALSE],
       [include_ambient |-> FALSE, include_dialogue |-> FALSE] >>
PaletteValues == <<TRUE, FALSE>>

\* The j-th combination of the optional groups: 0 omits them all, 1 has
\* every group with every boolean set.
GroupConfig(j) ==
    Choice("shot", ShotValues, j)
    @@ Choice("subject", SubjectValues, j)
    @@ Choice("scene", SceneValues, j)
    @@ Choice("visual_details", VisualValues, j)
    @@ Choice("cinematography", CinematographyValues, j)
    @@ Choice("audio", AudioValues, j)
    @@ Choice("color_palette", PaletteValues, j)

\* The styles that have a modifier sentence and are not among Styles, each on
\* every combination of the required fields, with every group present and the
\* advanced section on.
OtherStyles == {"Commercial", "Artistic"}
StyleConfigs ==
    {[BasicConfig(i) EXCEPT !.style = s] @@ ("enable_advanced_details" :> TRUE) @@ GroupConfig(1) :
        i \in 0 .. MaxBasic - 1, s \in OtherStyles}

ConfigSet ==
    {BasicConfig(i) @@ t @@ GroupConfig(j) :
        i \in 0 .. MaxBasic - 1, t \in Toggles, j \in 0 .. MaxGroups - 1}
    \cup StyleConfigs

Seeds == [a : 0 .. RandDen - 1, b : 0 .. RandSlopes - 1]

(***************************************************************************)
(* MemStorage (server/storage.ts).  A Map is a function from its keys; the *)
(* keys are handed out in increasing order and never deleted, so the       *)
(* insertion order of a Map is the increasing order of its keys.  The      *)
(* texts of a template are cut into atoms at the words the search queries  *)
(* of the model can match.                                                 *)
(***************************************************************************)
defaultTemplates ==
    <<
       [name |-> <<"Epic ", "Sports", " Action">>,
        description |-> <<"High-energy athletic moments with cinematic flair">>,
        category |-> <<"Sports", " & Athletics">>,
        promptTemplate |-> <<"A professional athlete in peak physical condition performs {action} during a crucial moment in the game. The scene unfolds in slow motion as {subject} launches through the air, muscles tensed and focused, {context}. Golden hour lighting creates dramatic shadows and highlights the intensity of the moment. Shot with cinematic camera movement that follows the action, capturing every detail in photorealistic quality.">>,
        isPopular |-> TRUE, usageCount |-> 1200, rating |-> 48],
       [name |-> <<"Urban", " Chase Scene">>,
        description |-> <<"Fast-paced city action with dynamic camera work">>,
        category |-> <<"Urban", " & Street">>,
        promptTemplate |-> <<"A {subject} moves through busy downtown streets in a high-speed chase. The camera follows with dynamic tracking shots as {details} and {environment}. Dramatic lighting cuts through the urban landscape, creating a cinematic atmosphere of tension and movement.">>,
        isPopular |-> FALSE, usageCount |-> 847, rating |-> 46],
       [name |-> <<"Nature", " Documentary">>,
        description |-> <<"Wildlife", " and natural phenomena in motion">>,
        category |-> <<"Nature", " & ", "Wildlife">>,
        promptTemplate |-> <<"A {animal} {action} in its natural habitat during {time_of_day}. The scene captures the raw power and beauty of nature as {details}. Professional wildlife cinematography with telephoto lens work showcases every detail in stunning photorealistic quality.">>,
        isPopular |-> FALSE, usageCount |-> 623, rating |-> 47],
       [name |-> <<"Vehicle", " Stunts">>,
        description |-> <<"High-octane automotive action sequences">>,
        category |-> <<"Vehicle", " Action">>,
        promptTemplate |-> <<"A {vehicle} performs {stunt} across {terrain} during {conditions}. The camera captures multiple angles of the action as {details}. Dynamic lighting and motion blur emphasize the speed and danger of the moment in cinematic detail.">>,
        isPopular |-> FALSE, usageCount |-> 456, rating |-> 45],
       [name |-> <<"Drama", "tic Weather">>,
        description |-> <<"Storm and weather-related dynamic scenes">>,
        category |-> <<"Nature", " & ", "Wildlife">>,
        promptTemplate |-> <<"A {weather_event} unfolds across {landscape} with dramatic intensity. {subjects} struggle against the elements as {details}. Cinematic lighting through the storm creates a powerful atmosphere of natural forces in motion.">>,
        isPopular |-> FALSE, usageCount |-> 334, rating |-> 44],
       [name |-> <<"Human ", "Drama">>,
        description |-> <<"Emotional moments with cinematic storytelling">>,
        category |-> <<"Human ", "Drama">>,
        promptTemplate |-> <<"A {character} experiences {emotion} in {setting} during {situation}. The camera captures the intensity of human emotion through {technique}. Dramatic lighting and composition create a powerful cinematic moment that resonates with authenticity.">>,
        isPopular |-> FALSE, usageCount |-> 289, rating |-> 46]
    >>

EmptyMap == << >>

\* map.set(key, value)
MapSet(map, key, value) == [k \in DOMAIN map \cup {key} |-> IF k = key THEN value ELSE map[k]]

\* Array.from(map.values()): the values in insertion order.
RECURSIVE KeysInOrder(_)
KeysInOrder(keys) ==
    IF keys = {} THEN << >>
    ELSE LET least == CHOOSE k \in keys : \A other \in keys : k <= other
         IN  <<least>> \o KeysInOrder(keys \ {least})
MapValues(map) == [i \in DOMAIN KeysInOrder(DOMAIN map) |-> map[KeysInOrder(DOMAIN map)[i]]]

\* createTemplate: the store after the call; the template made has the id
\* the counter held.
createTemplate(store, insertTemplate, now) ==
    [store EXCEPT
        !.currentTemplateId = store.currentTemplateId + 1,
        !.templates = MapSet(store.templates, store.currentTemplateId,
                             [id |-> store.currentTemplateId,
                              usageCount |-> 0,
                              createdAt |-> now] @@ insertTemplate)]

\* One turn of the loop of initializeDefaultTemplates: the usage count of the
\* default template is kept.
SeedTemplate(store, template, now) ==
    [store EXCEPT
        !.currentTemplateId = store.currentTemplateId + 1,
        !.templates = MapSet(store.templates, store.currentTemplateId,
                             [id |-> store.currentTemplateId, createdAt |-> now] @@ template)]

RECURSIVE initializeDefaultTemplates(_, _, _)
initializeDefaultTemplates(store, remaining, now) ==
    IF remaining = << >> THEN store
    ELSE initializeDefaultTemplates(SeedTemplate(store, Head(remaining), now), Tail(remaining), now)

\* new MemStorage(): initializeDefaultTemplates has no await, so it runs to
\* its end inside the constructor.
MemStorage(now) ==
    initializeDefaultTemplates(
        [prompts |-> EmptyMap, templates |-> EmptyMap, currentPromptId |-> 1, currentTemplateId |-> 1],
        defaultTemplates, now)

\* A slip that leaves the counter where it is: this.currentPromptId without ++.
createPromptKeepingCounter(store, insertPrompt, now) ==
    [store EXCEPT
        !.prompts = MapSet(store.prompts, store.currentPromptId,
                           [id |-> store.currentPromptId, createdAt |-> now] @@ insertPrompt)]

\* A slip that draws the id from both counters: the template counter moves too.
createPromptAdvancingBoth(store, insertPrompt, now) ==
    [store EXCEPT
        !.prompts = MapSet(store.prompts, store.currentPromptId,
                           [id |-> store.currentPromptId, createdAt |-> now] @@ insertPrompt),
        !.currentPromptId = @ + 1,
        !.currentTemplateId = @ + 1]

\* createPrompt: the store after the call; the prompt made has the id the
\* counter held.
createPrompt(store, insertPrompt, now) ==
    [store EXCEPT
        !.currentPromptId = store.currentPromptId + 1,
        !.prompts = MapSet(store.prompts, store.currentPromptId,
                           [id |-> store.currentPromptId, createdAt |-> now] @@ insertPrompt)]

\* Array.prototype.sort with the comparator (a, b) => b[key] - a[key]: the
\* sort is stable, so entries with equal keys keep their order.
RECURSIVE InsertDescending(_, _, _)
InsertDescending(sorted, x, key) ==
    IF sorted = << >> THEN <<x>>
    ELSE IF Head(sorted)[key] >= x[key]
    THEN <<Head(sorted)>> \o InsertDescending(Tail(sorted), x, key)
    ELSE <<x>> \o sorted

\* A slip in the comparator, a[key] - b[key]: the order comes out ascending.
RECURSIVE InsertAscending(_, _, _)
InsertAscending(sorted, x, key) ==
    IF sorted = << >> THEN <<x>>
    ELSE IF Head(sorted)[key] <= x[key]
    THEN <<Head(sorted)>> \o InsertAscending(Tail(sorted), x, key)
    ELSE <<x>> \o sorted

RECURSIVE SortAscending(_, _)
SortAscending(array, key) ==
    IF array = << >> THEN << >>
    ELSE InsertAscending(SortAscending(SubSeq(array, 1, Len(array) - 1), key),
                         array[Len(array)], key)

RECURSIVE SortDescending(_, _)
SortDescending(array, key) ==
    IF array = << >> THEN << >>
    ELSE InsertDescending(SortDescending(SubSeq(array, 1, Len(array) - 1), key),
                          array[Len(array)], key)

\* array.slice(0, end): a negative end counts from the end of the array.
Slice(array, end) ==
    IF end >= 0
    THEN SubSeq(array, 1, IF end < Len(array) THEN end ELSE Len(array))
    ELSE SubSeq(array, 1, IF Len(array) + end > 0 THEN Len(array) + end ELSE 0)

\* getPrompts(limit): limit is undefined, NaN or a number; undefined, NaN and
\* 0 are falsy.
getPrompts(store, limit) ==
    LET allPrompts == SortDescending(MapValues(store.prompts), "createdAt")
    IN  IF limit.kind = "number" /\ limit.value # 0
        THEN Slice(allPrompts, limit.value)
        ELSE allPrompts

\* getTemplates(category): an undefined or empty category is falsy.
getTemplates(store, category) ==
    LET allTemplates == MapValues(store.templates)
        \* allTemplates.filter(t => t.category === category)
        SameCategory(t) == t.category = category[1]
    IN  IF IsDefined(category) /\ category[1] # EmptyText
        THEN SelectSeq(allTemplates, SameCategory)
        ELSE SortDescending(allTemplates, "usageCount")

\* getTemplateById(id): undefined for an id that is no key, NaN included.
getTemplateById(store, id) ==
    IF IsDefined(id) /\ id[1] \in DOMAIN store.templates
    THEN Some(store.templates[id[1]])
    ELSE Undefined

\* A slip that counts a use twice.
updateTemplateUsageTwice(store, id) ==
    IF IsDefined(getTemplateById(store, id))
    THEN [store EXCEPT !.templates[id[1]].usageCount = @ + 2]
    ELSE store

\* updateTemplateUsage(id): the store after the call.
updateTemplateUsage(store, id) ==
    IF IsDefined(getTemplateById(store, id))
    THEN [store EXCEPT !.templates[id[1]].usageCount = @ + 1]
    ELSE store

\* A slip that compares without lowering the case.
searchTemplatesCaseSensitive(store, query) ==
    LET Matches(template) ==
            \/ Contains(template.name, query)
            \/ Contains(template.description, query)
            \/ Contains(template.category, query)
    IN  SelectSeq(MapValues(store.templates), Matches)

\* searchTemplates(query)
searchTemplates(store, query) ==
    LET lowercaseQuery == toLowerCase(query)
        Matches(template) ==
            \/ Contains(toLowerCase(template.name), lowercaseQuery)
            \/ Contains(toLowerCase(template.description), lowercaseQuery)
            \/ Contains(toLowerCase(template.category), lowercaseQuery)
    IN  SelectSeq(MapValues(store.templates), Matches)

\* The server before any request: the store as constructed at time 0.
ServerStarted ==
    /\ storage = MemStorage(0)
    /\ clock = 0
    /\ requests = << >>

(***************************************************************************)
(* The client as it is mounted (client/src/pages/prompt-generator.tsx and  *)
(* the components it renders).                                             *)
(***************************************************************************)
\* useState<PromptConfigType>({...}) of PromptGenerator.
InitialConfig ==
    [category |-> "Sports & Athletics",
     style |-> "Cinematic",
     duration |-> <<"5", "-", "1", "0", " seconds">>,
     complexity |-> "Medium",
     elements |-> [weather_effects |-> FALSE, dynamic_lighting |-> TRUE, camera_movement |-> TRUE],
     enable_shot_details |-> FALSE,
     enable_scene_details |-> FALSE,
     enable_advanced_details |-> FALSE,
     shot |-> [composition |-> <<"Medium shot">>, camera_motion |-> <<"handheld">>,
               frame_rate |-> <<"24 fps">>, film_grain |-> FALSE],
     subject |-> [include_description |-> TRUE, include_wardrobe |-> FALSE],
     scene |-> [include_location |-> TRUE, include_time_of_day |-> TRUE,
                include_environment |-> TRUE],
     visual_details |-> [include_action |-> TRUE, include_props |-> FALSE],
     cinematography |-> [include_lighting |-> TRUE, include_tone |-> TRUE],
     audio |-> [include_ambient |-> FALSE, include_dialogue |-> FALSE],
     color_palette |-> FALSE]

\* The state of the three components after the first render.
ClientStarted ==
    /\ uiConfig = InitialConfig
    /\ edits = 0
    /\ isGenerating = FALSE
    /\ generateMutation = << >>
    /\ uiPrompt = Undefined
    /\ isGeneratingVariations = FALSE
    /\ variationsMutation = << >>
    /\ shownVariations = << >>
    /\ toast = Undefined
    /\ searchQuery = EmptyText
    /\ selectedCategory = <<"All Categories">>
    /\ searchFetch = Undefined
    /\ searchResults = << >>

(***************************************************************************)
(* The state machine: one request body and one state of the random source  *)
(* per behaviour, and the operation the server runs on it.                 *)
(***************************************************************************)
Init ==
    /\ config \in ConfigSet
    /\ seed \in Seeds
    /\ op = "idle"
    /\ result = NoResult
    /\ jsonResult = NoJson
    /\ variations = NoVariations
    /\ ServerStarted
    /\ ClientStarted

\* generatePromptFromConfig(config) of the natural-language variant.
Generate ==
    /\ op = "idle"
    /\ op' = "nl"
    /\ result' = generatePromptFromConfig(config, seed, 1)
    /\ UNCHANGED <<config, seed, jsonResult, variations>>
    /\ UNCHANGED serverVars
    /\ UNCHANGED clientVars

\* generatePromptFromConfig(config) of routes.ts.
GenerateJson ==
    /\ op = "idle"
    /\ op' = "json"
    /\ jsonResult' = generateJsonPromptFromConfig(config, seed, 1)
    /\ UNCHANGED <<config, seed, result, variations>>
    /\ UNCHANGED serverVars
    /\ UNCHANGED clientVars

\* generatePromptVariations(config, 3) of the natural-language variant.
GenerateVariations ==
    /\ op = "idle"
    /\ op' = "nlvar"
    /\ variations' = generatePromptVariations(config, seed, VariationCount)
    /\ UNCHANGED <<config, seed, result, jsonResult>>
    /\ UNCHANGED serverVars
    /\ UNCHANGED clientVars

\* generatePromptVariations(config, 3) of routes.ts.
GenerateJsonVariations ==
    /\ op = "idle"
    /\ op' = "jsonvar"
    /\ variations' = generateJsonPromptVariations(config, seed, VariationCount)
    /\ UNCHANGED <<config, seed, result, jsonResult>>
    /\ UNCHANGED serverVars
    /\ UNCHANGED clientVars

Next == Generate \/ GenerateJson \/ GenerateVariations \/ GenerateJsonVariations

Spec == Init /\ [][Next]_vars

(***************************************************************************)
(* The server: the route handlers over the store.  A handler runs without  *)
(* interruption up to an await and may be overtaken by other handlers      *)
(* there.  A handler whose only await is its one call of the store or of   *)
(* the variation generator is a single step: what it answers is fixed by   *)
(* that call.                                                              *)
(***************************************************************************)
\* Operations the server performs, and ticks of the clock.
MaxRequests == 2
MaxClock == 1

\* promptConfigSchema.parse: the paths of the required properties that are
\* missing, which are the issues of the ZodError.
RequiredFields == {"category", "style", "duration", "complexity", "elements"}
ElementFields == {"weather_effects", "dynamic_lighting", "camera_movement"}
GroupFields ==
    [shot |-> {"composition", "camera_motion", "frame_rate", "film_grain"},
     subject |-> {"include_description", "include_wardrobe"},
     scene |-> {"include_location", "include_time_of_day", "include_environment"},
     visual_details |-> {"include_action", "include_props"},
     cinematography |-> {"include_lighting", "include_tone"},
     audio |-> {"include_ambient", "include_dialogue"}]

\* A slip that checks the optional groups only.
ZodIssuesOfGroups(body) ==
    UNION {{<<g, f>> : f \in GroupFields[g] \ DOMAIN body[g]} :
                g \in DOMAIN GroupFields \cap DOMAIN body}

ZodIssues(body) ==
    {<<f>> : f \in RequiredFields \ DOMAIN body}
    \cup (IF "elements" \in DOMAIN body
          THEN {<<"elements", f>> : f \in ElementFields \ DOMAIN body.elements}
          ELSE {})
    \cup UNION {{<<g, f>> : f \in GroupFields[g] \ DOMAIN body[g]} :
                    g \in DOMAIN GroupFields \cap DOMAIN body}

Parses(body) == ZodIssues(body) = {}

\* Without(record, field): the body with one property left out.
Without(record, field) == [f \in DOMAIN record \ {field} |-> record[f]]

\* The bodies posted: two the schema accepts, the second one making the
\* assembler throw, and one it rejects, which lacks the category and has a
\* subject group short of a property.
Bodies ==
    << BasicConfig(1),
       BasicConfig(3) @@ ("enable_scene_details" :> TRUE) @@ ("subject" :> SubjectValues[3]),
       Without(BasicConfig(1), "category") @@ ("subject" :> [include_description |-> TRUE]) >>

\* The states of the random source the requests meet.
ServerSeeds == {sd \in Seeds : sd.a <= 1 /\ sd.b = 0}

\* JSON.stringify(config).substring(0, 20): the opening of the object, the
\* key "category" and the first seven characters of the category.
ConfigHash(c) ==
    CASE c.category = "Technology" -> <<"{\"category\":\"Technol">>
      [] c.category = "Nature & Wildlife" -> <<"{\"category\":\"Nature ">>
      [] c.category = "Underwater" -> <<"{\"category\":\"Underwa">>
      [] c.category = "constructor" -> <<"{\"category\":\"constru">>
      [] c.category = "Sports & Athletics" -> <<"{\"category\":\"Sports ">>

\* promptData of the generate route.
PromptData(c, generatedPrompt, now) ==
    [prompt |-> generatedPrompt,
     category |-> c.category,
     style |-> c.style,
     duration |-> c.duration,
     complexity |-> c.complexity,
     elements |-> c.elements,
     metadata |-> [generated_at |-> now,
                   version |-> <<"2.0.0">>,
                   config_hash |-> ConfigHash(c),
                   enabled_features |-> [shot_details |-> Flag(c, "enable_shot_details"),
                                         scene_details |-> Flag(c, "enable_scene_details"),
                                         advanced_details |-> Flag(c, "enable_advanced_details")]]]

\* No status line has been sent yet.
NoResponse == [status |-> 0]
Respond(status, body) == [status |-> status, body |-> body]

\* A request that got its response, and one suspended at an await.
Done(kind, input, local, response) ==
    [kind |-> kind, pc |-> "done", input |-> input, local |-> local, response |-> response]
Suspended(kind, pc, input, local) ==
    [kind |-> kind, pc |-> pc, input |-> input, local |-> local, response |-> NoResponse]

CanReceive == Len(requests) < MaxRequests

\* POST /api/prompts/generate, up to the await of the assembler.
ReceiveGenerate ==
    /\ CanReceive
    /\ \E b \in DOMAIN Bodies : \E sd \in ServerSeeds :
          requests' = Append(requests,
              IF ~Parses(Bodies[b])
              THEN Done("generate", Bodies[b], [assembled |-> FALSE],
                        Respond(400, [message |-> <<"Invalid configuration">>,
                                      errors |-> ZodIssues(Bodies[b])]))
              ELSE Suspended("generate", "assembler", Bodies[b],
                             [assembled |-> TRUE,
                              generated |-> generatePromptFromConfig(Bodies[b], sd, 1)]))
    /\ UNCHANGED <<storage, clock>>
    /\ UNCHANGED assemblerVars
    /\ UNCHANGED clientVars

\* The generate handler resumed after the assembler: the catch clause when it
\* threw, else storage.createPrompt up to its await.
ResumeGenerate ==
    /\ \E i \in DOMAIN requests :
          /\ requests[i].kind = "generate" /\ requests[i].pc = "assembler"
          /\ IF requests[i].local.generated.threw
             THEN /\ requests' = [requests EXCEPT ![i] =
                        Done("generate", @.input, @.local,
                             Respond(500, [message |-> <<"Failed to generate prompt">>]))]
                  /\ UNCHANGED storage
             ELSE /\ storage' = createPrompt(storage,
                                    PromptData(requests[i].input,
                                               requests[i].local.generated.text, clock),
                                    clock)
                  /\ requests' = [requests EXCEPT ![i] =
                        Suspended("generate", "createPrompt", @.input,
                                  [assembled |-> TRUE,
                                   generated |-> @.local.generated,
                                   prompt |-> storage'.prompts[storage.currentPromptId]])]
    /\ UNCHANGED clock
    /\ UNCHANGED assemblerVars
    /\ UNCHANGED clientVars

\* The generate handler resumed after createPrompt: res.json(prompt).
FinishGenerate ==
    /\ \E i \in DOMAIN requests :
          /\ requests[i].kind = "generate" /\ requests[i].pc = "createPrompt"
          /\ requests' = [requests EXCEPT ![i] =
                Done("generate", @.input, @.local, Respond(200, @.local.prompt))]
    /\ UNCHANGED <<storage, clock>>
    /\ UNCHANGED assemblerVars
    /\ UNCHANGED clientVars

\* POST /api/prompts/variations
Variations ==
    /\ CanReceive
    /\ \E b \in DOMAIN Bodies : \E sd \in ServerSeeds :
          requests' = Append(requests,
              IF ~Parses(Bodies[b])
              THEN Done("variations", Bodies[b], [assembled |-> FALSE],
                        Respond(400, [message |-> <<"Invalid configuration">>,
                                      errors |-> ZodIssues(Bodies[b])]))
              ELSE IF generatePromptVariations(Bodies[b], sd, VariationCount).threw
              THEN Done("variations", Bodies[b], [assembled |-> TRUE],
                        Respond(500, [message |-> <<"Failed to generate variations">>]))
              ELSE Done("variations", Bodies[b], [assembled |-> TRUE],
                        Respond(200, [variations |->
                            generatePromptVariations(Bodies[b], sd, VariationCount).items])))
    /\ UNCHANGED <<storage, clock>>
    /\ UNCHANGED assemblerVars
    /\ UNCHANGED clientVars

\* A query parameter: absent, or a text.
LimitQueries == {Undefined, Some(<<"0">>), Some(<<"1">>), Some(<<"all">>)}

\* req.query.limit ? parseInt(req.query.limit) : undefined
ParseLimit(query) ==
    IF ~IsDefined(query) \/ query[1] = EmptyText THEN [kind |-> "undefined"]
    ELSE IF ~IsDefined(parseInt(query[1])) THEN [kind |-> "NaN"]
    ELSE [kind |-> "number", value |-> parseInt(query[1])[1]]

\* GET /api/prompts
GetPrompts ==
    /\ CanReceive
    /\ \E q \in LimitQueries :
          requests' = Append(requests,
              Done("getPrompts", q, [limit |-> ParseLimit(q)],
                   Respond(200, getPrompts(storage, ParseLimit(q)))))
    /\ UNCHANGED <<storage, clock>>
    /\ UNCHANGED assemblerVars
    /\ UNCHANGED clientVars

CategoryQueries ==
    {Undefined, Some(EmptyText), Some(<<"Nature", " & ", "Wildlife">>), Some(<<"Nature">>)}

\* GET /api/templates
GetTemplates ==
    /\ CanReceive
    /\ \E q \in CategoryQueries :
          requests' = Append(requests,
              Done("getTemplates", q, [category |-> q], Respond(200, getTemplates(storage, q))))
    /\ UNCHANGED <<storage, clock>>
    /\ UNCHANGED assemblerVars
    /\ UNCHANGED clientVars

SearchQueries ==
    {Undefined, Some(EmptyText), Some(<<"SPORTS">>), Some(<<"wildlife">>), Some(<<"Drama">>),
     Some(<<"zzz">>)}

\* GET /api/templates/search
SearchTemplates ==
    /\ CanReceive
    /\ \E q \in SearchQueries :
          requests' = Append(requests,
              IF ~IsDefined(q) \/ q[1] = EmptyText
              THEN Done("search", q, [searched |-> FALSE],
                        Respond(400, [message |-> <<"Search query is required">>]))
              ELSE Done("search", q, [searched |-> TRUE],
                        Respond(200, searchTemplates(storage, q[1]))))
    /\ UNCHANGED <<storage, clock>>
    /\ UNCHANGED assemblerVars
    /\ UNCHANGED clientVars

\* The :id of the use route.
IdParams == {<<"1">>, <<"7">>, <<"abc">>, <<"1", "abc">>}

\* POST /api/templates/:id/use, up to the await of getTemplateById.
ReceiveUse ==
    /\ CanReceive
    /\ \E id \in IdParams :
          requests' = Append(requests,
              Suspended("use", "getTemplateById", id,
                        [templateId |-> parseInt(id),
                         template |-> getTemplateById(storage, parseInt(id))]))
    /\ UNCHANGED <<storage, clock>>
    /\ UNCHANGED assemblerVars
    /\ UNCHANGED clientVars

\* A slip that writes back the template read before the await, raised by one,
\* in place of raising the stored one.
ResumeUseFromSnapshot ==
    /\ \E i \in DOMAIN requests :
          /\ requests[i].kind = "use" /\ requests[i].pc = "getTemplateById"
          /\ IF ~IsDefined(requests[i].local.template)
             THEN /\ requests' = [requests EXCEPT ![i] =
                        Done("use", @.input, @.local,
                             Respond(404, [message |-> <<"Template not found">>]))]
                  /\ UNCHANGED storage
             ELSE /\ storage' = [storage EXCEPT
                        !.templates[requests[i].local.templateId[1]].usageCount =
                            requests[i].local.template[1].usageCount + 1]
                  /\ requests' = [requests EXCEPT ![i] =
                        Suspended("use", "updateTemplateUsage", @.input, @.local)]
    /\ UNCHANGED clock
    /\ UNCHANGED assemblerVars
    /\ UNCHANGED clientVars

\* The use handler resumed after getTemplateById: 404, or
\* storage.updateTemplateUsage up to its await.
ResumeUse ==
    /\ \E i \in DOMAIN requests :
          /\ requests[i].kind = "use" /\ requests[i].pc = "getTemplateById"
          /\ IF ~IsDefined(requests[i].local.template)
             THEN /\ requests' = [requests EXCEPT ![i] =
                        Done("use", @.input, @.local,
                             Respond(404, [message |-> <<"Template not found">>]))]
                  /\ UNCHANGED storage
             ELSE /\ storage' = updateTemplateUsage(storage, requests[i].local.templateId)
                  /\ requests' = [requests EXCEPT ![i] =
                        Suspended("use", "updateTemplateUsage", @.input, @.local)]
    /\ UNCHANGED clock
    /\ UNCHANGED assemblerVars
    /\ UNCHANGED clientVars

\* The use handler resumed after updateTemplateUsage.
FinishUse ==
    /\ \E i \in DOMAIN requests :
          /\ requests[i].kind = "use" /\ requests[i].pc = "updateTemplateUsage"
          /\ requests' = [requests EXCEPT ![i] =
                Done("use", @.input, @.local,
                     Respond(200, [message |-> <<"Template usage updated">>]))]
    /\ UNCHANGED <<storage, clock>>
    /\ UNCHANGED assemblerVars
    /\ UNCHANGED clientVars

\* The template an insert carries: no id, no usage count, no creation time.
InsertTemplates ==
    {[name |-> <<"Urban", " Stunts">>,
      description |-> <<"Street performers in motion">>,
      category |-> <<"Urban", " & Street">>,
      promptTemplate |-> <<"A {subject} performs {stunt} in {setting}.">>,
      isPopular |-> FALSE, rating |-> 50]}

\* storage.createTemplate, called on the store directly (no route calls it).
CreateTemplate ==
    /\ CanReceive
    /\ \E t \in InsertTemplates :
          /\ storage' = createTemplate(storage, t, clock)
          /\ requests' = Append(requests,
                Done("createTemplate", t, [id |-> storage.currentTemplateId],
                     Respond(200, storage'.templates[storage.currentTemplateId])))
    /\ UNCHANGED clock
    /\ UNCHANGED assemblerVars
    /\ UNCHANGED clientVars

\* A millisecond passes.
Tick ==
    /\ clock < MaxClock
    /\ clock' = clock + 1
    /\ UNCHANGED <<storage, requests>>
    /\ UNCHANGED assemblerVars
    /\ UNCHANGED clientVars

ServerInit ==
    /\ config = BasicConfig(1)
    /\ seed \in {sd \in Seeds : sd.a = 0 /\ sd.b = 0}
    /\ op = "idle"
    /\ result = NoResult
    /\ jsonResult = NoJson
    /\ variations = NoVariations
    /\ ServerStarted
    /\ ClientStarted

ServerNext ==
    \/ ReceiveGenerate \/ ResumeGenerate \/ FinishGenerate
    \/ Variations
    \/ GetPrompts \/ GetTemplates \/ SearchTemplates
    \/ ReceiveUse \/ ResumeUse \/ FinishUse
    \/ CreateTemplate
    \/ Tick

ServerSpec == ServerInit /\ [][ServerNext]_vars

(***************************************************************************)
(* The client: PromptGenerator with PromptConfig, PromptOutput and         *)
(* TemplateLibrary.  A handler runs to its end inside one event; a         *)
(* mutation or a query it starts settles in a later step.  The server's    *)
(* answer to a request is what the route computes for the body over the    *)
(* store as started; what requests do to the store is in ServerSpec.       *)
(***************************************************************************)
\* Changes the user makes to the config.
MaxEdits == 3

\* const CATEGORIES, STYLES, DURATIONS: the options offered.
CATEGORIES ==
    <<"Sports & Athletics", "Action & Adventure", "Drama & Emotion", "Comedy & Entertainment",
      "Horror & Thriller", "Romance & Relationships", "Science Fiction", "Documentary Style",
      "Fantasy & Magic", "Music & Dance", "Food & Cooking", "Travel & Nature", "Technology",
      "Fashion & Beauty", "Business & Professional">>
STYLES ==
    <<"Cinematic", "Documentary", "Artistic", "Commercial", "Vintage", "Modern", "Noir", "Colorful">>
DURATIONS ==
    << <<"1", "-", "3", " seconds">>,
       <<"3", "-", "5", " seconds">>,
       <<"5", "-", "1", "0", " seconds">>,
       <<"1", "0", "-", "1", "5", " seconds">>,
       <<"1", "5", "-", "3", "0", " seconds">> >>

\* The options the user of the model picks among.
PickedCategories == {CATEGORIES[1], CATEGORIES[13]}
PickedStyles == {STYLES[1], STYLES[7]}
PickedDurations == {DURATIONS[3], DURATIONS[4]}
PickedShotValues ==
    [composition |-> <<"Wide shot">>, camera_motion |-> <<"static">>, frame_rate |-> <<"60 fps">>]

\* The groups whose checkboxes each section of the form renders.
SectionGroups ==
    [enable_scene_details |-> {"subject", "scene", "visual_details"},
     enable_advanced_details |-> {"cinematography", "audio"}]

\* { ...config.group!, field: value }: spreading undefined gives no property.
Spread(c, group) == IF Has(c, group) THEN c[group] ELSE EmptyObject
WithGroupField(c, group, field, value) ==
    (group :> ((field :> value) @@ Spread(c, group))) @@ c

\* checked={config.group?.field}: undefined shows as unchecked.
Checked(c, group, field) == Has(c, group) /\ field \in DOMAIN c[group] /\ c[group][field]

\* array.filter((_, k) => k !== i)
RemoveAt(array, i) == [k \in 1 .. Len(array) - 1 |-> IF k < i THEN array[k] ELSE array[k + 1]]

\* onConfigChange(c), which is setConfig.
onConfigChange(c) ==
    /\ edits < MaxEdits
    /\ edits' = edits + 1
    /\ uiConfig' = c
    /\ UNCHANGED <<isGenerating, generateMutation, uiPrompt,
                   isGeneratingVariations, variationsMutation, shownVariations>>
    /\ UNCHANGED <<assemblerVars, serverVars, libraryVars>>

\* The category select, the duration select and the style buttons.
SelectCategory ==
    /\ \E value \in PickedCategories \ {uiConfig.category} :
          onConfigChange([uiConfig EXCEPT !.category = value])
    /\ UNCHANGED toast
SelectDuration ==
    /\ \E value \in PickedDurations \ {uiConfig.duration} :
          onConfigChange([uiConfig EXCEPT !.duration = value])
    /\ UNCHANGED toast
ClickStyle ==
    /\ \E style \in PickedStyles : onConfigChange([uiConfig EXCEPT !.style = style])
    /\ UNCHANGED toast

\* handleComplexityChange, value being the position of the slider.
handleComplexityChange ==
    /\ \E value \in 1 .. 3 :
          LET complexity == IF value = 1 THEN "Simple" ELSE IF value = 2 THEN "Medium" ELSE "Complex"
          IN  /\ complexity # uiConfig.complexity
              /\ onConfigChange([uiConfig EXCEPT !.complexity = complexity])
    /\ UNCHANGED toast

\* The three effects checkboxes.
CheckElement ==
    /\ \E f \in ElementFields : onConfigChange([uiConfig EXCEPT !.elements[f] = ~@])
    /\ UNCHANGED toast

\* The three section checkboxes.
CheckSection ==
    /\ \E t \in {"enable_shot_details", "enable_scene_details", "enable_advanced_details"} :
          onConfigChange((t :> ~Flag(uiConfig, t)) @@ uiConfig)
    /\ UNCHANGED toast

\* The selects and the checkbox of the shot section, rendered when it is on.
EditShot ==
    /\ Flag(uiConfig, "enable_shot_details")
    /\ \/ \E f \in DOMAIN PickedShotValues :
             onConfigChange(WithGroupField(uiConfig, "shot", f, PickedShotValues[f]))
       \/ onConfigChange(WithGroupField(uiConfig, "shot", "film_grain",
                                        ~Checked(uiConfig, "shot", "film_grain")))
    /\ UNCHANGED toast

\* The checkboxes of the scene section and of the advanced section.
CheckGroupField ==
    /\ \E t \in DOMAIN SectionGroups : \E g \in SectionGroups[t] : \E f \in GroupFields[g] :
          /\ Flag(uiConfig, t)
          /\ onConfigChange(WithGroupField(uiConfig, g, f, ~Checked(uiConfig, g, f)))
    /\ UNCHANGED toast
CheckPalette ==
    /\ Flag(uiConfig, "enable_advanced_details")
    /\ onConfigChange(("color_palette" :> ~Flag(uiConfig, "color_palette")) @@ uiConfig)
    /\ UNCHANGED toast

\* template.category as the config holds it.
CategoryOf(template) ==
    CASE template.category = <<"Sports", " & Athletics">> -> "Sports & Athletics"
      [] template.category = <<"Urban", " & Street">> -> "Urban & Street"
      [] template.category = <<"Nature", " & ", "Wildlife">> -> "Nature & Wildlife"
      [] template.category = <<"Vehicle", " Action">> -> "Vehicle Action"
      [] template.category = <<"Human ", "Drama">> -> "Human Drama"

\* The templates of the library the user of the model picks among.
PickedTemplates == {1, 3}

\* handleTemplateSelect: the config is replaced by one made from the template.
handleTemplateSelect ==
    /\ \E id \in PickedTemplates \cap DOMAIN storage.templates :
          onConfigChange(
              [category |-> CategoryOf(storage.templates[id]),
               style |-> "Cinematic",
               duration |-> <<"5", "-", "1", "0", " seconds">>,
               complexity |-> "Medium",
               elements |-> [weather_effects |-> FALSE, dynamic_lighting |-> TRUE,
                             camera_movement |-> TRUE]])
    /\ toast' = Some("Template Loaded")

\* The answer of POST /api/prompts/generate to a body, for each state of the
\* random source.
GenerateResponses(body) ==
    IF ~Parses(body)
    THEN {Respond(400, [message |-> <<"Invalid configuration">>, errors |-> ZodIssues(body)])}
    ELSE {IF generatePromptFromConfig(body, sd, 1).threw
          THEN Respond(500, [message |-> <<"Failed to generate prompt">>])
          ELSE Respond(200, PromptData(body, generatePromptFromConfig(body, sd, 1).text, clock))
            : sd \in ServerSeeds}

\* The answer of POST /api/prompts/variations to a body.
ServerVariationsResponses(body) ==
    IF ~Parses(body)
    THEN {Respond(400, [message |-> <<"Invalid configuration">>, errors |-> ZodIssues(body)])}
    ELSE {IF generatePromptVariations(body, sd, VariationCount).threw
          THEN Respond(500, [message |-> <<"Failed to generate variations">>])
          ELSE Respond(200, [variations |-> generatePromptVariations(body, sd, VariationCount).items])
            : sd \in ServerSeeds}

\* What the variations mutation may be handed: an answer of the route, or a
\* 200 whose JSON carries no variations, which the route never sends.
VariationsResponses(body) == ServerVariationsResponses(body) \cup {Respond(200, EmptyObject)}

Ok(response) == response.status \in 200 .. 299

\* await apiRequest(...): resolved with the response, or rejected.  It may
\* reject a response that is not ok.
ApiRequestOutcomes(response) == IF Ok(response) THEN {"resolved"} ELSE {"resolved", "rejected"}

\* handleGenerate, on a click of the Generate button (disabled={isGenerating}).
handleGenerate ==
    /\ ~isGenerating
    /\ isGenerating' = TRUE
    /\ generateMutation' = Append(generateMutation, uiConfig)
    /\ UNCHANGED <<uiConfig, edits, uiPrompt, isGeneratingVariations, variationsMutation,
                   shownVariations, toast>>
    /\ UNCHANGED <<assemblerVars, serverVars, libraryVars>>

\* A settling whose onError leaves the flag alone.
GenerateSettlesKeepingFlagOnError ==
    /\ \E i \in DOMAIN generateMutation :
          /\ \E response \in GenerateResponses(generateMutation[i]) :
             \E outcome \in ApiRequestOutcomes(response) :
                IF outcome = "resolved"
                THEN /\ uiPrompt' = Some(response.body)
                     /\ isGenerating' = FALSE
                     /\ toast' = Some("Prompt generated successfully!")
                ELSE /\ toast' = Some("Generation failed")
                     /\ UNCHANGED <<uiPrompt, isGenerating>>
          /\ generateMutation' = RemoveAt(generateMutation, i)
    /\ UNCHANGED <<uiConfig, edits, isGeneratingVariations, variationsMutation, shownVariations>>
    /\ UNCHANGED <<assemblerVars, serverVars, libraryVars>>

\* A generate mutation settles: onSuccess with the JSON of the response, or
\* onError.
GenerateSettles ==
    /\ \E i \in DOMAIN generateMutation :
          /\ \E response \in GenerateResponses(generateMutation[i]) :
             \E outcome \in ApiRequestOutcomes(response) :
                IF outcome = "resolved"
                THEN /\ uiPrompt' = Some(response.body)
                     /\ isGenerating' = FALSE
                     /\ toast' = Some("Prompt generated successfully!")
                ELSE /\ isGenerating' = FALSE
                     /\ toast' = Some("Generation failed")
                     /\ UNCHANGED uiPrompt
          /\ generateMutation' = RemoveAt(generateMutation, i)
    /\ UNCHANGED <<uiConfig, edits, isGeneratingVariations, variationsMutation, shownVariations>>
    /\ UNCHANGED <<assemblerVars, serverVars, libraryVars>>

\* handleGenerateVariations, on a click of Generate More, which is rendered
\* when there is a prompt and disabled={isGeneratingVariations}.
handleGenerateVariations ==
    /\ IsDefined(uiPrompt)
    /\ ~isGeneratingVariations
    /\ isGeneratingVariations' = TRUE
    /\ variationsMutation' = Append(variationsMutation, uiConfig)
    /\ UNCHANGED <<uiConfig, edits, isGenerating, generateMutation, uiPrompt, shownVariations,
                   toast>>
    /\ UNCHANGED <<assemblerVars, serverVars, libraryVars>>

\* A variations mutation settles: the mutation function throws on a response
\* that is not ok; onSuccess acts only on data that carries variations.
VariationsSettle ==
    /\ \E i \in DOMAIN variationsMutation :
          /\ \E response \in VariationsResponses(variationsMutation[i]) :
                IF ~Ok(response)
                THEN /\ toast' = Some("Error")
                     /\ isGeneratingVariations' = FALSE
                     /\ UNCHANGED shownVariations
                ELSE IF "variations" \in DOMAIN response.body
                THEN /\ shownVariations' = response.body.variations
                     /\ isGeneratingVariations' = FALSE
                     /\ toast' = Some("Success")
                ELSE UNCHANGED <<shownVariations, isGeneratingVariations, toast>>
          /\ variationsMutation' = RemoveAt(variationsMutation, i)
    /\ UNCHANGED <<uiConfig, edits, isGenerating, generateMutation, uiPrompt>>
    /\ UNCHANGED <<assemblerVars, serverVars, libraryVars>>

UiInit ==
    /\ config = BasicConfig(1)
    /\ seed \in {sd \in Seeds : sd.a = 0 /\ sd.b = 0}
    /\ op = "idle"
    /\ result = NoResult
    /\ jsonResult = NoJson
    /\ variations = NoVariations
    /\ ServerStarted
    /\ ClientStarted

UiNext ==
    \/ SelectCategory \/ SelectDuration \/ ClickStyle \/ handleComplexityChange
    \/ CheckElement \/ CheckSection \/ EditShot \/ CheckGroupField \/ CheckPalette
    \/ handleTemplateSelect
    \/ handleGenerate \/ GenerateSettles

UiSpec == UiInit /\ [][UiNext]_vars

\* The output card next to the form: a style is clicked, a prompt is
\* generated, and more variations are asked for.
OutputNext ==
    \/ ClickStyle
    \/ handleGenerate \/ GenerateSettles
    \/ handleGenerateVariations \/ VariationsSettle

OutputSpec == UiInit /\ [][OutputNext]_vars

(***************************************************************************)
(* The template library: the search box and the category filter.  The      *)
(* component function runs once per render; the query function and the     *)
(* handlers made by a render see the state of that render.                 *)
(***************************************************************************)
\* String.prototype.trim on atoms, the blank being the whitespace atom.
RECURSIVE TrimStart(_)
TrimStart(text) ==
    IF text # EmptyText /\ Head(text) = " " THEN TrimStart(Tail(text)) ELSE text
RECURSIVE TrimEnd(_)
TrimEnd(text) ==
    IF text # EmptyText /\ text[Len(text)] = " "
    THEN TrimEnd(SubSeq(text, 1, Len(text) - 1))
    ELSE text
Trim(text) == TrimEnd(TrimStart(text))

\* What the user of the model types into the search box.
SearchTexts ==
    {EmptyText, <<" ">>, <<"SPORTS">>, <<"wildlife">>, <<" ", "Drama">>, <<"zzz">>}

\* The options of the category filter the user of the model picks among.
PickedFilters == {<<"All Categories">>, <<"Sports", " & Athletics">>, <<"Human ", "Drama">>}

\* The data of the templates query, once loaded.
LoadedTemplates == getTemplates(storage, Undefined)

\* What the query function made by a render with the search text q returns.
queryFn(q) ==
    IF Trim(q) = EmptyText THEN << >> ELSE searchTemplates(storage, q)

\* filteredTemplates: the list the library shows.
filteredTemplates ==
    LET InCategory(template) ==
            selectedCategory = <<"All Categories">> \/ template.category = selectedCategory
    IN  IF Trim(searchQuery) # EmptyText
        THEN searchResults
        ELSE SelectSeq(LoadedTemplates, InCategory)

\* handleSearch(value), on a change of the search box.  setSearchQuery takes
\* effect at the next render; searchTemplates() is the refetch of this
\* render's query, whose query function reads this render's searchQuery.  A
\* refetch replaces the fetch in flight.
handleSearch ==
    /\ \E value \in SearchTexts \ {searchQuery} :
          /\ searchQuery' = value
          /\ IF Trim(value) # EmptyText
             THEN searchFetch' = Some(searchQuery)
             ELSE UNCHANGED searchFetch
    /\ UNCHANGED <<selectedCategory, searchResults>>
    /\ UNCHANGED <<assemblerVars, serverVars, generatorVars>>

\* The fetch in flight settles and its result becomes the data of the query.
SearchSettles ==
    /\ IsDefined(searchFetch)
    /\ searchResults' = queryFn(searchFetch[1])
    /\ searchFetch' = Undefined
    /\ UNCHANGED <<searchQuery, selectedCategory>>
    /\ UNCHANGED <<assemblerVars, serverVars, generatorVars>>

\* The category filter.
SelectFilter ==
    /\ \E value \in PickedFilters \ {selectedCategory} : selectedCategory' = value
    /\ UNCHANGED <<searchQuery, searchFetch, searchResults>>
    /\ UNCHANGED <<assemblerVars, serverVars, generatorVars>>

LibraryNext == handleSearch \/ SearchSettles \/ SelectFilter

LibrarySpec == UiInit /\ [][LibraryNext]_vars

(***************************************************************************)
(* Properties                                                              *)
(***************************************************************************)
Kinds(parts) == [i \in DOMAIN parts |-> parts[i].kind]
HasKind(parts, kind) == \E i \in DOMAIN parts : parts[i].kind = kind
Produced == op = "nl" /\ ~result.threw

\* The tables keyed by category, with the selector of each.
CategoryTables == <<subjects, actions, wardrobe, locations, environments, props, ambient>>

\* C1: for every accepted config and every draw, the natural-language
\* generatePromptFromConfig returns a non-empty string whose last part is the
\* closing sentence, which starts "Photorealistic quality with stunning detail".
C1_AlwaysClosingSentence ==
    op = "nl" =>
        /\ ~result.threw
        /\ result.text # EmptyText
        /\ result.parts[Len(result.parts)].text = Some(ClosingSentence)
        /\ EndsWith(result.text, ClosingSentence)
        /\ StartsWith(ClosingSentence, <<"Photorealistic quality with stunning detail">>)

\* C2: when the category is not a key of a content table, the selector of that
\* table returns an element of the "Sports & Athletics" row, whatever the draw,
\* and generatePromptFromConfig completes without raising.
C2_FallbackToDefaultCategory ==
    op = "nl" =>
        /\ ~result.threw
        /\ \A t \in DOMAIN CategoryTables : \A r \in 0 .. RandDen - 1 :
              config.category \notin DOMAIN CategoryTables[t] =>
                  \E i \in DOMAIN CategoryTables[t][DefaultCategory] :
                      SelectFragment(CategoryTables[t], config.category, DefaultCategory, r)
                          = Some(CategoryTables[t][DefaultCategory][i])

\* The shot clause the assembler would build from the config's shot group.
ShotClause(c) == JoinTexts(ShotDetails(c.shot), <<", ">>) \o <<".">>

\* C3: with enable_shot_details false or absent, the natural-language output has
\* no shot-composition clause, whatever the shot group holds.
C3_NoShotClauseWhenDisabled ==
    (Produced /\ ~Flag(config, "enable_shot_details")) =>
        /\ ~HasKind(result.parts, "shot")
        /\ Has(config, "shot") => ~Contains(result.text, ShotClause(config))

\* C3 witness: a prompt produced from a config that carries a shot group with
\* film grain while enable_shot_details is absent, the other sections being on.
C3_Witness ==
    /\ Produced
    /\ ~Has(config, "enable_shot_details")
    /\ Has(config, "shot") /\ config.shot.film_grain
    /\ Flag(config, "enable_scene_details")
    /\ HasKind(result.parts, "scene")

OptionalGroups ==
    {"shot", "subject", "scene", "visual_details", "cinematography", "audio", "color_palette"}

\* The natural-language output carries a clause gated by the group.
NlEmits(out, group) ==
    CASE group = "shot" -> HasKind(out.parts, "shot")
      [] group = "subject" -> HasKind(out.parts, "wardrobe")
      [] group = "scene" -> HasKind(out.parts, "scene")
      [] group = "visual_details" -> HasKind(out.parts, "props")
      [] group = "cinematography" ->
            Contains(out.text, <<"Lighting: ">>) \/ Contains(out.text, <<"Overall tone: ">>)
      [] group = "audio" -> HasKind(out.parts, "ambient") \/ HasKind(out.parts, "dialogue")
      [] group = "color_palette" -> HasKind(out.parts, "palette")

\* The JSON output carries a section (for cinematography: a lighting or tone
\* entry) for the group.
JsonEmits(out, group) ==
    IF group = "cinematography"
    THEN /\ "cinematography" \in DOMAIN out.json
         /\ DOMAIN out.json.cinematography \cap {"lighting", "tone"} # {}
    ELSE group \in DOMAIN out.json

\* C4: for a config that omits an optional group, both assemblers complete
\* without error and emit no fragment for the omitted group, also when the
\* section toggle of the group is true.
C4_OmittedGroupEmitsNothing ==
    \A g \in OptionalGroups :
        ~Has(config, g) =>
            /\ op = "nl" => (~result.threw /\ ~NlEmits(result, g))
            /\ op = "json" => (~jsonResult.threw /\ ~JsonEmits(jsonResult, g))

\* C5: two natural-language runs on one config with different draws include
\* the same clauses (and fail alike): the outcome of every other draw has the
\* clauses of the run at hand.
C5_SameClausesForAllDraws ==
    op = "nl" =>
        \A sd \in Seeds :
            /\ generatePromptFromConfig(config, sd, 1).threw = result.threw
            /\ Kinds(generatePromptFromConfig(config, sd, 1).parts) = Kinds(result.parts)

\* C5 witness: a run for which another draw gives a different text, with the
\* wardrobe, scene and palette clauses included.
C5_Witness ==
    /\ Produced
    /\ HasKind(result.parts, "wardrobe")
    /\ HasKind(result.parts, "scene")
    /\ HasKind(result.parts, "palette")
    /\ \E sd \in Seeds : generatePromptFromConfig(config, sd, 1).text # result.text

\* C6: generatePromptVariations(config, 3) returns exactly 3 results, each the
\* assembler's output for the config with only complexity replaced by one of
\* Simple, Medium, Complex; the config is not modified.
C6_ThreeVariations ==
    /\ op = "nlvar" =>
          /\ ~variations.threw
          /\ Len(variations.items) = 3
          /\ \A i \in 1 .. 3 : \E k \in DOMAIN complexities :
                variations.items[i]
                    = generatePromptFromConfig([config EXCEPT !.complexity = complexities[k]],
                                               seed, i).text
    /\ op = "jsonvar" =>
          /\ ~variations.threw
          /\ Len(variations.items) = 3
          /\ \A i \in 1 .. 3 : \E k \in DOMAIN complexities :
                variations.items[i]
                    = generateJsonPromptFromConfig([config EXCEPT !.complexity = complexities[k]],
                                                   seed, i).json

\* The example config of the spec: no optional section, no toggle.
ExampleConfig ==
    [category |-> "Nature & Wildlife",
     style |-> "Documentary",
     duration |-> <<"1", "0", "-", "1", "5", " seconds">>,
     complexity |-> "Simple",
     elements |-> [weather_effects |-> TRUE, dynamic_lighting |-> FALSE, camera_movement |-> FALSE]]

\* C7 as stated: for the example config the output contains "developing through
\* an extended sequence" and "dynamic weather effects" and ends with
\* "Photorealistic quality with stunning detail.".
C7_ExampleEndsWithShortSentence ==
    (op = "nl" /\ config = ExampleConfig) =>
        /\ ~result.threw
        /\ Contains(result.text, <<"developing through an extended sequence">>)
        /\ Contains(result.text, <<"dynamic weather effects">>)
        /\ EndsWith(result.text, <<"Photorealistic quality with stunning detail", ".">>)

\* C7 as amended: for the example config the output contains both phrases and
\* ends with the whole closing sentence, "Photorealistic quality with stunning
\* detail and professional video production standards.".
C7_ExampleOutput ==
    (op = "nl" /\ config = ExampleConfig) =>
        /\ ~result.threw
        /\ Contains(result.text, <<"developing through an extended sequence">>)
        /\ Contains(result.text, <<"dynamic weather effects">>)
        /\ EndsWith(result.text,
                    <<"Photorealistic quality with stunning detail",
                      " and professional video production standards", ".">>)

\* C7 witness: the assembler has run on the example config.
C7_Witness == op = "nl" /\ config = ExampleConfig /\ result.text # EmptyText

\* The integer the text before the first "-" parses to, 5 when it parses to none.
ParsedSeconds(duration) ==
    IF IsDefined(parseInt(SplitFirst(duration, "-")))
    THEN parseInt(SplitFirst(duration, "-"))[1]
    ELSE 5

DialogueSentence(n) ==
    <<"Features ">> \o NumberToText(n)
    \o <<"-second dialogue segment with documentary-style narration.">>

\* C8: with enable_advanced_details and audio.include_dialogue true, the
\* dialogue sentence embeds the integer the text before the first "-" parses to,
\* and 5 when that text does not parse; the JSON dialogue entry likewise.
C8_DialogueEmbedsParsedSeconds ==
    (Flag(config, "enable_advanced_details") /\ GroupFlag(config, "audio", "include_dialogue")) =>
        /\ Produced =>
              \E i \in DOMAIN result.parts :
                  /\ result.parts[i].kind = "dialogue"
                  /\ result.parts[i].text = Some(DialogueSentence(ParsedSeconds(config.duration)))
        /\ (op = "json" /\ ~jsonResult.threw) =>
              jsonResult.json.audio.dialogue.duration = ParsedSeconds(config.duration)

\* The row a selector uses for a category that has or lacks a row of its own.
RowFor(table, category) ==
    IF category \in DOMAIN table THEN table[category] ELSE table[DefaultCategory]

\* C9: in every output of the natural-language assembler the first part is a
\* subject description of the config's category and an action fragment is
\* present, whatever the toggles.
C9_SubjectFirstActionAlways ==
    Produced =>
        /\ result.parts[1].kind = "subject"
        /\ \E i \in DOMAIN RowFor(subjects, config.category) :
              result.parts[1].text = Some(RowFor(subjects, config.category)[i])
        /\ \E p \in DOMAIN result.parts : \E i \in DOMAIN RowFor(actions, config.category) :
              /\ result.parts[p].kind = "action"
              /\ result.parts[p].text = Some(RowFor(actions, config.category)[i])

\* The order of the parts as the spec lists it, and as the code pushes them.
SpecOrder ==
    <<"subject", "wardrobe", "action", "shot", "scene", "props", "cinematography",
      "ambient", "dialogue", "palette", "style", "complexity", "duration", "closing">>
PushOrder ==
    <<"subject", "action", "wardrobe", "shot", "scene", "props", "cinematography",
      "ambient", "dialogue", "palette", "style", "complexity", "duration", "closing">>

Rank(order, kind) == CHOOSE i \in DOMAIN order : order[i] = kind

\* The parts appear in the given order, each at most once.
InOrder(parts, order) ==
    \A i, j \in DOMAIN parts :
        i < j => Rank(order, parts[i].kind) < Rank(order, parts[j].kind)

\* C10 as stated: the included parts appear in the order subject, wardrobe,
\* action, shot, scene, props, cinematography, ambient, dialogue, palette,
\* style, complexity, duration, closing.
C10_PartsInSpecOrder ==
    Produced => InOrder(result.parts, SpecOrder)

\* C10 as amended: the included parts appear in the order subject, action,
\* wardrobe, shot, scene, props, cinematography, ambient, dialogue, palette,
\* style, complexity, duration, closing; a part gated off is skipped.
C10_PartsInPushOrder ==
    Produced => InOrder(result.parts, PushOrder)

\* C10 witness: an output in which all fourteen parts are included.
C10_Witness == Produced /\ Len(result.parts) = Len(PushOrder)

\* The sections the two assemblers have in common.
Sections ==
    {"shot", "description", "wardrobe", "location", "time_of_day", "environment",
     "props", "lighting", "tone", "ambient", "dialogue", "color_palette", "effects"}

\* Some fragment of some row of the table occurs in the text.
ContainsFragmentOf(text, table) ==
    \E k \in DOMAIN table : \E i \in DOMAIN table[k] : Contains(text, <<table[k][i]>>)

\* The natural-language output carries the clause of the section.
NlHasSection(out, section) ==
    CASE section = "shot" -> HasKind(out.parts, "shot")
      [] section = "description" ->
            \E i \in DOMAIN out.parts : out.parts[i].kind = "subject" /\ IsDefined(out.parts[i].text)
      [] section = "wardrobe" -> HasKind(out.parts, "wardrobe")
      [] section = "location" -> Contains(out.text, <<"Location: ">>)
      [] section = "time_of_day" -> Contains(out.text, <<"Time: ">>)
      [] section = "environment" -> ContainsFragmentOf(out.text, environments)
      [] section = "props" -> HasKind(out.parts, "props")
      [] section = "lighting" -> Contains(out.text, <<"Lighting: ">>)
      [] section = "tone" -> Contains(out.text, <<"Overall tone: ">>)
      [] section = "ambient" -> HasKind(out.parts, "ambient")
      [] section = "dialogue" -> HasKind(out.parts, "dialogue")
      [] section = "color_palette" -> HasKind(out.parts, "palette")
      [] section = "effects" -> Contains(out.text, <<"Enhanced with: ">>)

\* object.group.field is in the JSON output.
JsonHasField(json, group, field) ==
    group \in DOMAIN json /\ field \in DOMAIN json[group]

\* The JSON output carries the section.
JsonHasSection(out, section) ==
    CASE section = "shot" -> "shot" \in DOMAIN out.json
      [] section = "description" -> JsonHasField(out.json, "subject", "description")
      [] section = "wardrobe" -> JsonHasField(out.json, "subject", "wardrobe")
      [] section = "location" -> JsonHasField(out.json, "scene", "location")
      [] section = "time_of_day" -> JsonHasField(out.json, "scene", "time_of_day")
      [] section = "environment" -> JsonHasField(out.json, "scene", "environment")
      [] section = "props" -> JsonHasField(out.json, "visual_details", "props")
      [] section = "lighting" -> JsonHasField(out.json, "cinematography", "lighting")
      [] section = "tone" -> JsonHasField(out.json, "cinematography", "tone")
      [] section = "ambient" -> JsonHasField(out.json, "audio", "ambient")
      [] section = "dialogue" -> JsonHasField(out.json, "audio", "dialogue")
      [] section = "color_palette" -> "color_palette" \in DOMAIN out.json
      [] section = "effects" -> JsonHasField(out.json, "cinematography", "effects")

\* C11: for every config the JSON assembler includes a section exactly when the
\* natural-language assembler includes the corresponding clause: the two
\* variants gate alike on the section toggles and the per-group booleans.
C11_SameGatingInBothVariants ==
    (Produced /\ ~generateJsonPromptFromConfig(config, seed, 1).threw) =>
        \A s \in Sections :
            NlHasSection(result, s)
                <=> JsonHasSection(generateJsonPromptFromConfig(config, seed, 1), s)

(***************************************************************************)
(* Properties of the server                                                *)
(***************************************************************************)
\* The requests of a kind, and those among them answered with a status.
RequestsOf(kind) == {i \in DOMAIN requests : requests[i].kind = kind}
Answered(kind, status) ==
    {i \in RequestsOf(kind) : requests[i].response.status = status}

\* The generate requests that have called createPrompt.
Persisting ==
    {i \in RequestsOf("generate") :
        requests[i].pc = "createPrompt" \/ requests[i].response.status = 200}

\* C12: a generate request whose body fails the schema is answered 400 with a
\* message and the field errors, the assembler not being invoked; and the
\* generate requests answered 400 or 500 have added no prompt and have not
\* advanced the prompt id counter: the prompts and the counter account for the
\* other generate requests only.
C12_RejectedGenerateLeavesNoPrompt ==
    /\ \A i \in RequestsOf("generate") :
          ~Parses(requests[i].input) =>
              /\ requests[i].response.status = 400
              /\ requests[i].response.body.message = <<"Invalid configuration">>
              /\ requests[i].response.body.errors # {}
              /\ \A f \in RequiredFields \ DOMAIN requests[i].input :
                    <<f>> \in requests[i].response.body.errors
              /\ ~requests[i].local.assembled
    /\ (Answered("generate", 400) \cup Answered("generate", 500)) \cap Persisting = {}
    /\ Cardinality(DOMAIN storage.prompts) = Cardinality(Persisting)
    /\ storage.currentPromptId = 1 + Cardinality(Persisting)

\* C12 witness: one generate request answered 400 and one answered 500.
C12_Witness ==
    /\ Answered("generate", 400) # {}
    /\ Answered("generate", 500) # {}
    /\ storage.currentPromptId = 1

\* The fields of a template other than its usage count.
FixedFields(template) == DOMAIN template \ {"usageCount"}

\* The use requests that call updateTemplateUsage in the step at hand.
Updating ==
    {i \in RequestsOf("use") :
        requests[i].pc = "getTemplateById" /\ requests'[i].pc = "updateTemplateUsage"}

\* C13: updateTemplateUsage(id) on an existing id raises the usageCount of that
\* template by exactly 1 and leaves its other fields, every other template,
\* the prompts and both id counters unchanged; and in every step of the server
\* no template's usageCount decreases and no other field of it changes.
C13_UseRaisesUsageByOne ==
    [][ /\ \A id \in DOMAIN storage.templates :
              /\ id \in DOMAIN storage'.templates
              /\ storage'.templates[id].usageCount >= storage.templates[id].usageCount
              /\ \A f \in FixedFields(storage.templates[id]) :
                    storage'.templates[id][f] = storage.templates[id][f]
        /\ \A i \in Updating :
              LET id == requests[i].local.templateId[1]
              IN  /\ storage'.templates[id].usageCount = storage.templates[id].usageCount + 1
                  /\ DOMAIN storage'.templates = DOMAIN storage.templates
                  /\ \A other \in DOMAIN storage.templates \ {id} :
                        storage'.templates[other] = storage.templates[other]
                  /\ storage'.prompts = storage.prompts
                  /\ storage'.currentPromptId = storage.currentPromptId
                  /\ storage'.currentTemplateId = storage.currentTemplateId
      ]_vars

\* C13 witness: the first default template has been used twice.
C13_Witness ==
    /\ Cardinality(Answered("use", 200)) = 2
    /\ storage.templates[1].usageCount = defaultTemplates[1].usageCount + 2

\* The id parameter is the decimal numeral of the id of a stored template.
NamesTemplate(param, id) == id \in DOMAIN storage.templates /\ param = NumberToText(id)

\* The use requests that have called updateTemplateUsage.
Updated ==
    {i \in RequestsOf("use") :
        requests[i].pc = "updateTemplateUsage" \/ requests[i].response.status = 200}

\* The usage count a template is stored with: that of the default template, 0
\* for a template created later.
InitialUsage(id) == IF id \in DOMAIN defaultTemplates THEN defaultTemplates[id].usageCount ELSE 0

\* C14: a use request whose id is not in storage, a non-numeric id included, is
\* answered 404 and leaves storage unchanged: it never updates a template, so
\* every usage count is accounted for by the requests that name the template,
\* and the template id counter by the templates created.
C14_UnknownIdIsNotFound ==
    /\ \A i \in RequestsOf("use") :
          (\A id \in DOMAIN storage.templates : ~NamesTemplate(requests[i].input, id)) =>
              /\ i \notin Updated
              /\ requests[i].pc = "done" => requests[i].response.status = 404
    /\ \A id \in DOMAIN storage.templates :
          storage.templates[id].usageCount
              = InitialUsage(id)
                + Cardinality({i \in Updated : NamesTemplate(requests[i].input, id)})
    /\ storage.currentTemplateId
          = Len(defaultTemplates) + 1 + Cardinality(RequestsOf("createTemplate"))

\* The request received in the step at hand, if it is of the kind.
Received(kind) ==
    /\ Len(requests') = Len(requests) + 1
    /\ requests'[Len(requests')].kind = kind

\* The stored prompts from the one created last to the one created first.
NewestFirst(store) ==
    [i \in 1 .. Cardinality(DOMAIN store.prompts) |->
        store.prompts[Cardinality(DOMAIN store.prompts) + 1 - i]]

\* The first n entries of an array, all of them when it has fewer.
FirstN(array, n) == SubSeq(array, 1, IF n < Len(array) THEN n ELSE Len(array))

\* C15: GET /api/prompts?limit=N, for a non-negative integer N, returns at
\* most N prompts: the N created most recently, newest first, also when
\* prompts were created within one millisecond.
C15_LimitReturnsNewest ==
    [][ (/\ Received("getPrompts")
         /\ requests'[Len(requests')].local.limit.kind = "number"
         /\ requests'[Len(requests')].local.limit.value >= 0)
        => /\ requests'[Len(requests')].response.status = 200
           /\ Len(requests'[Len(requests')].response.body)
                 <= requests'[Len(requests')].local.limit.value
           /\ requests'[Len(requests')].response.body
                 = FirstN(NewestFirst(storage), requests'[Len(requests')].local.limit.value)
      ]_vars

\* The list holds each of the templates of the set once, as stored, and no other.
ListsExactly(list, store, ids) ==
    /\ Len(list) = Cardinality(ids)
    /\ \A id \in ids : \E i \in DOMAIN list : list[i] = store.templates[id]

NonIncreasingUsage(list) ==
    \A i, j \in DOMAIN list : i < j => list[i].usageCount >= list[j].usageCount

\* The store after two templates more were created and the second was used:
\* the order of usage then differs from the order of creation.
CreatedTwiceUsedOnce(store, now) ==
    LET t == CHOOSE t \in InsertTemplates : TRUE
    IN  updateTemplateUsage(createTemplate(createTemplate(store, t, now), t, now),
                            Some(store.currentTemplateId + 1))

SameIgnoringCase(a, b) == LowerAtom(a) = LowerAtom(b)

\* The text contains the query, ignoring case.
ContainsIgnoringCase(text, query) ==
    \E i \in 0 .. (Len(text) - Len(query)) :
        \A j \in 1 .. Len(query) : SameIgnoringCase(text[i + j], query[j])

\* The templates whose name, description or category contains the query.
MatchingTemplates(store, query) ==
    {id \in DOMAIN store.templates :
        \/ ContainsIgnoringCase(store.templates[id].name, query)
        \/ ContainsIgnoringCase(store.templates[id].description, query)
        \/ ContainsIgnoringCase(store.templates[id].category, query)}

Creating ==
    {i \in RequestsOf("generate") :
        requests[i].pc = "assembler" /\ requests'[i].pc = "createPrompt"}

\* Every entry of a collection is stored under its id, the keys are 1 to the
\* number of entries, and the counter is one more.
KeyedFromOne(map, counter) ==
    /\ DOMAIN map = 1 .. Cardinality(DOMAIN map)
    /\ \A k \in DOMAIN map : map[k].id = k
    /\ counter = Cardinality(DOMAIN map) + 1

\* The fields of the stored prompt are those it was created with.
StoredAsCreated(prompt, c, text, now) ==
    /\ prompt.prompt = text
    /\ prompt.category = c.category /\ prompt.style = c.style
    /\ prompt.duration = c.duration /\ prompt.complexity = c.complexity
    /\ prompt.elements = c.elements
    /\ prompt.metadata = PromptData(c, text, now).metadata
    /\ prompt.createdAt = now

\* C18: prompt ids and template ids each come from a counter that starts at 1
\* and grows by 1 per creation: the ids of a collection are distinct, the n-th
\* prompt created has id n and is stored under that key with the fields it was
\* created with, the six default templates hold ids 1 to 6 from the
\* construction of the store on, and no id is used again.
C18_IdsCountFromOne ==
    /\ [](/\ KeyedFromOne(storage.prompts, storage.currentPromptId)
          /\ KeyedFromOne(storage.templates, storage.currentTemplateId)
          /\ \A k \in DOMAIN defaultTemplates :
                /\ k \in DOMAIN storage.templates
                /\ storage.templates[k].name = defaultTemplates[k].name
          /\ Len(defaultTemplates) = 6)
    /\ [][ /\ \A i \in Creating :
                 LET n == Cardinality(DOMAIN storage.prompts) + 1
                 IN  /\ DOMAIN storage'.prompts = DOMAIN storage.prompts \cup {n}
                     /\ storage'.prompts[n].id = n
                     /\ StoredAsCreated(storage'.prompts[n], requests[i].input,
                                        requests[i].local.generated.text, clock)
           /\ \A k \in DOMAIN storage.prompts :
                 k \in DOMAIN storage'.prompts /\ storage'.prompts[k] = storage.prompts[k]
           /\ \A k \in DOMAIN storage.templates :
                 k \in DOMAIN storage'.templates /\ storage'.templates[k].id = k
           /\ storage'.currentPromptId >= storage.currentPromptId
           /\ storage'.currentTemplateId >= storage.currentTemplateId
         ]_vars

\* C18 witness: two generate requests have each created a prompt, the second
\* under id 2, beside the six default templates.
C18_Witness ==
    /\ DOMAIN storage.prompts = {1, 2}
    /\ storage.currentPromptId = 3
    /\ \A i \in RequestsOf("generate") : requests[i].pc \in {"createPrompt", "done"}
    /\ Cardinality(Persisting) = 2

\* The use requests that have raised the usage count of template id.
UpdatedOf(id) == {i \in Updated : requests[i].local.templateId = Some(id)}

\* C19: with handlers interleaved at their awaits and no locking, no two
\* prompts share an id, every generate request that reached createPrompt has
\* persisted exactly one prompt, its own, and the uses of an existing template
\* that reached updateTemplateUsage, k of them, have raised its usage count by
\* exactly k.
C19_NoLostUpdateWhenInterleaved ==
    /\ \A i \in Persisting : \A j \in Persisting :
          i # j => requests[i].local.prompt.id # requests[j].local.prompt.id
    /\ Cardinality(DOMAIN storage.prompts) = Cardinality(Persisting)
    /\ \A i \in Persisting :
          /\ requests[i].local.prompt.id \in DOMAIN storage.prompts
          /\ storage.prompts[requests[i].local.prompt.id] = requests[i].local.prompt
    /\ \A id \in DOMAIN storage.templates :
          storage.templates[id].usageCount = InitialUsage(id) + Cardinality(UpdatedOf(id))

\* C19 witness: two uses of template 1 both read it before either update, and
\* both updates are in the stored count.
C19_Witness ==
    /\ Cardinality(UpdatedOf(1)) = 2
    /\ \A i \in UpdatedOf(1) : requests[i].local.template[1].usageCount = InitialUsage(1)
    /\ storage.templates[1].usageCount = InitialUsage(1) + 2

\* The generate requests that take a step: received, resumed or answered.
Stepping ==
    {i \in DOMAIN requests' :
        /\ requests'[i].kind = "generate"
        /\ (i \in DOMAIN requests => requests'[i] # requests[i])}

\* The store differs from the one before by one added prompt and nothing else.
AddsOnePrompt ==
    /\ \E n \in DOMAIN storage'.prompts :
          /\ n \notin DOMAIN storage.prompts
          /\ DOMAIN storage'.prompts = DOMAIN storage.prompts \cup {n}
    /\ \A k \in DOMAIN storage.prompts : storage'.prompts[k] = storage.prompts[k]
    /\ storage'.currentPromptId = storage.currentPromptId + 1
    /\ storage'.templates = storage.templates
    /\ storage'.currentTemplateId = storage.currentTemplateId

\* C20: the assembler and the variation generator neither read nor modify
\* storage: a variations request leaves storage as it was whatever its answer,
\* what the assembler returns is determined by the body and the random draws
\* alone, and a generate request changes storage only in the step that calls
\* createPrompt, which adds exactly one prompt and touches nothing else.
C20_AssemblersLeaveStorageAlone ==
    [][ /\ Received("variations") => storage' = storage
        /\ Received("generate") =>
              LET request == requests'[Len(requests')]
              IN  request.local.assembled =>
                     \E sd \in ServerSeeds :
                        request.local.generated = generatePromptFromConfig(request.input, sd, 1)
        /\ \A i \in Stepping :
              IF i \in Creating THEN AddsOnePrompt ELSE storage' = storage
      ]_vars

\* C20 witness: a generate request and a variations request have both been
\* answered 200, and storage holds the one prompt and the default templates.
C20_Witness ==
    /\ Answered("generate", 200) # {}
    /\ Answered("variations", 200) # {}
    /\ DOMAIN storage.prompts = {1}
    /\ storage.templates = MemStorage(0).templates
    /\ storage.currentTemplateId = MemStorage(0).currentTemplateId

(***************************************************************************)
(* Properties of the clauses                                               *)
(***************************************************************************)
\* The effects and their phrases, in the fixed order.
EffectPhrases ==
    << [element |-> "weather_effects", phrase |-> <<"dynamic weather effects">>],
       [element |-> "dynamic_lighting", phrase |-> <<"dramatic lighting changes">>],
       [element |-> "camera_movement", phrase |-> <<"fluid camera movement">>] >>

\* The phrases of the enabled effects of a config, comma-separated.
EnabledEffects(c) ==
    LET Enabled(e) == c.elements[e.element]
        chosen == SelectSeq(EffectPhrases, Enabled)
    IN  JoinTexts([i \in DOMAIN chosen |-> chosen[i].phrase], <<", ">>)

AnyEffect(c) == \E i \in DOMAIN EffectPhrases : c.elements[EffectPhrases[i].element]

\* The text of the part of a kind, for an output that has one.
TextOfKind(parts, kind) == parts[CHOOSE i \in DOMAIN parts : parts[i].kind = kind].text[1]

\* C21: the effects phrase appears exactly when one of weather_effects,
\* dynamic_lighting, camera_movement is true, lists exactly the enabled effects
\* in that order, and does not depend on enable_advanced_details; lighting and
\* tone, when present, stay in the same cinematography clause (natural
\* language) or section (JSON) as the effects.
C21_EffectsPhraseAlwaysEvaluated ==
    /\ Produced =>
          /\ AnyEffect(config) <=> Contains(result.text, <<"Enhanced with: ">>)
          /\ AnyEffect(config) =>
                /\ HasKind(result.parts, "cinematography")
                /\ EndsWith(TextOfKind(result.parts, "cinematography"),
                            <<"Enhanced with: ">> \o EnabledEffects(config) \o <<".">>)
                /\ (Flag(config, "enable_advanced_details")
                      /\ GroupFlag(config, "cinematography", "include_lighting")) =>
                      StartsWith(TextOfKind(result.parts, "cinematography"), <<"Lighting: ">>)
                /\ (Flag(config, "enable_advanced_details")
                      /\ GroupFlag(config, "cinematography", "include_tone")) =>
                      Contains(TextOfKind(result.parts, "cinematography"), <<"Overall tone: ">>)
    /\ (op = "json" /\ ~jsonResult.threw) =>
          /\ AnyEffect(config) <=>
                /\ "cinematography" \in DOMAIN jsonResult.json
                /\ "effects" \in DOMAIN jsonResult.json.cinematography
          /\ AnyEffect(config) =>
                /\ jsonResult.json.cinematography.effects = EnabledEffects(config)
                /\ GroupFlag(config, "cinematography", "include_lighting") =>
                      "lighting" \in DOMAIN jsonResult.json.cinematography
                /\ GroupFlag(config, "cinematography", "include_tone") =>
                      "tone" \in DOMAIN jsonResult.json.cinematography

\* C21 witness: a prompt with the weather and camera effects but not the
\* lighting effect, from a config without enable_advanced_details.
C21_Witness ==
    /\ Produced
    /\ ~Flag(config, "enable_advanced_details")
    /\ config.elements.weather_effects /\ config.elements.camera_movement
    /\ ~config.elements.dynamic_lighting
    /\ Contains(result.text, <<"Enhanced with: ", "dynamic weather effects", ", ", "fluid camera movement", ".">>)

\* The sub-phrases a scene clause is made of for a config, given the location,
\* the time of day and the environment chosen.
SceneSubPhrases(c, location, time, environment) ==
    (IF GroupFlag(c, "scene", "include_location") THEN << <<"Location: ">> \o location >> ELSE << >>)
    \o (IF GroupFlag(c, "scene", "include_time_of_day") THEN << <<"Time: ">> \o time >> ELSE << >>)
    \o (IF GroupFlag(c, "scene", "include_environment") THEN << environment >> ELSE << >>)

\* The scene clauses the config allows: one per choice of fragments.
SceneClauses(c) ==
    {JoinTexts(SceneSubPhrases(c, RowFor(locations, c.category)[l], times[t],
                               RowFor(environments, c.category)[e]), <<". ">>) \o <<".">> :
        l \in DOMAIN RowFor(locations, c.category),
        t \in DOMAIN times,
        e \in DOMAIN RowFor(environments, c.category)}

SceneGate(c) ==
    /\ Flag(c, "enable_scene_details")
    /\ \/ GroupFlag(c, "scene", "include_location")
       \/ GroupFlag(c, "scene", "include_time_of_day")
       \/ GroupFlag(c, "scene", "include_environment")

\* C22: with enable_scene_details true the scene clause is made of exactly the
\* location, time-of-day and environment sub-phrases whose boolean is true, in
\* that order, joined by ". " and ended by "."; with none of the three true, or
\* with enable_scene_details false, there is no scene clause.
C22_SceneClauseOfEnabledSubPhrases ==
    Produced =>
        /\ HasKind(result.parts, "scene") <=> SceneGate(config)
        /\ SceneGate(config) => TextOfKind(result.parts, "scene") \in SceneClauses(config)

\* The modifier sentence of each style that has one.
StyleSentences ==
    [Cinematic |-> <<"Shot with cinematic production values and dramatic visual storytelling.">>,
     Documentary |-> <<"Captured with authentic documentary-style cinematography and natural lighting.">>,
     Commercial |-> <<"Filmed with polished commercial production quality and professional standards.">>,
     Artistic |-> <<"Created with artistic vision and innovative visual techniques.">>]

\* The number of parts of an output that are a style modifier sentence.
StyleSentenceCount(parts) ==
    Cardinality({i \in DOMAIN parts :
        \E s \in DOMAIN StyleSentences : parts[i].text = Some(StyleSentences[s])})

\* C23: the output has exactly one style modifier sentence, the one of its
\* style, when the style is Cinematic, Documentary, Commercial or Artistic; for
\* any other style it has none, and the style raises no error.
C23_OneStyleSentencePerKnownStyle ==
    /\ \A s \in DOMAIN StyleSentences : \A t \in DOMAIN StyleSentences :
          s # t => StyleSentences[s] # StyleSentences[t]
    /\ Produced =>
          IF config.style \in DOMAIN StyleSentences
          THEN /\ StyleSentenceCount(result.parts) = 1
               /\ \E i \in DOMAIN result.parts :
                     /\ result.parts[i].kind = "style"
                     /\ result.parts[i].text = Some(StyleSentences[config.style])
               /\ Contains(result.text, StyleSentences[config.style])
          ELSE /\ StyleSentenceCount(result.parts) = 0
               /\ ~HasKind(result.parts, "style")
    /\ op = "nl" =>
          (result.threw <=> Throws([config EXCEPT !.style = "Cinematic"], seed, 1))

\* C23 witness: a prompt in the Artistic style with its sentence.
C23_Witness ==
    /\ Produced
    /\ config.style = "Artistic"
    /\ Contains(result.text, <<"Created with artistic vision and innovative visual techniques.">>)

Range(seq) == {seq[i] : i \in DOMAIN seq}

\* The config with the groups named replaced by those given.
Replace(c, names, groups) == groups @@ [k \in DOMAIN c \ names |-> c[k]]

\* The configs that differ from c in one group, and those that differ in all
\* the groups of a section: all absent, or all present with every boolean set.
OneGroup(c, name, values) == {Replace(c, {name}, g) : g \in Optional(name, Range(values))}
AllGroups(c, names) ==
    {Replace(c, names, EmptyObject), Replace(c, names, [k \in names |-> GroupConfig(1)[k]])}

\* Configs that differ from c only in the groups of one section whose
\* top-level toggle is not true.
HiddenVariants(c) ==
    (IF Flag(c, "enable_shot_details") THEN {}
     ELSE OneGroup(c, "shot", ShotValues))
    \cup
    (IF Flag(c, "enable_scene_details") THEN {}
     ELSE OneGroup(c, "subject", SubjectValues)
          \cup OneGroup(c, "scene", SceneValues)
          \cup OneGroup(c, "visual_details", VisualValues)
          \cup AllGroups(c, {"subject", "scene", "visual_details"}))
    \cup
    (IF Flag(c, "enable_advanced_details") THEN {}
     ELSE OneGroup(c, "cinematography", CinematographyValues)
          \cup OneGroup(c, "audio", AudioValues)
          \cup OneGroup(c, "color_palette", PaletteValues)
          \cup AllGroups(c, {"cinematography", "audio", "color_palette"}))

\* C24: in the natural-language assembler the fields inside a section whose
\* top-level toggle is false have no effect: a config that differs only in the
\* groups of such a section gives, for the same draws, the same outcome, the
\* same clauses and the same text.
C24_HiddenFieldsHaveNoEffect ==
    op = "nl" =>
        \A c \in HiddenVariants(config) : generatePromptFromConfig(c, seed, 1) = result

\* C24 witness: a prompt from a config with no toggle on that asks for the
\* wardrobe, the props, the lighting and the palette, and the same prompt from
\* a config without these groups.
C24_Witness ==
    /\ Produced
    /\ ~Flag(config, "enable_shot_details")
    /\ ~Flag(config, "enable_scene_details")
    /\ ~Flag(config, "enable_advanced_details")
    /\ GroupFlag(config, "subject", "include_wardrobe")
    /\ GroupFlag(config, "visual_details", "include_props")
    /\ GroupFlag(config, "cinematography", "include_lighting")
    /\ Flag(config, "color_palette")
    /\ Replace(config, {"subject", "scene", "visual_details"}, EmptyObject) \in HiddenVariants(config)
    /\ Range(Kinds(result.parts))
          \subseteq {"subject", "action", "cinematography", "style", "complexity", "duration", "closing"}

(***************************************************************************)
(* Properties of the client                                                *)
(***************************************************************************)
\* C25: every config the form can hold, after any sequence of edits of basic
\* fields, section toggles, choices of a library template and edits of group
\* fields, satisfies promptConfigSchema, so that the generate request in flight
\* carries a body the route does not answer with 400.
C25_UiConfigSatisfiesSchema ==
    /\ Parses(uiConfig)
    /\ \A i \in DOMAIN generateMutation :
          \A response \in GenerateResponses(generateMutation[i]) : response.status # 400


\* C26: isGenerating is true exactly while a generate request is in flight:
\* it is set by the click, the button is disabled while it is set so that
\* at most one request is in flight, and it is reset when the request
\* settles, on success and on error alike, so it never stays true once
\* nothing is in flight.
C26_GeneratingExactlyWhileInFlight ==
    /\ Len(generateMutation) <= 1
    /\ isGenerating <=> generateMutation # << >>

\* A request that ended in onError has settled and the flag is down again.
C26_Witness ==
    /\ toast = Some("Generation failed")
    /\ generateMutation = << >>
    /\ ~isGenerating


\* C27: after Generate More, isGeneratingVariations is false again once the
\* request has settled, whatever the outcome: the flag is up only while a
\* variations request is in flight.
C27_VariationsFlagDownOnceSettled ==
    isGeneratingVariations => variationsMutation # << >>


\* The durations generatePromptFromConfig compares config.duration with; any
\* other duration gets the phrase of the final else.
DurationBranches ==
    {<<"3", "-", "5", " seconds">>, <<"5", "-", "1", "0", " seconds">>,
     <<"1", "0", "-", "1", "5", " seconds">>}

\* The style tables.
StyleTables == <<lighting, tones, palettes>>

\* C28: the category, the style and the duration of the config the UI holds
\* each have their own entry in every server table and branch consulted for
\* them, so that no fallback is taken: a row in every category table, a row in
\* every style table, a style sentence, and a duration branch.
C28_UiOptionsHaveOwnEntries ==
    /\ \A i \in DOMAIN CategoryTables : uiConfig.category \in DOMAIN CategoryTables[i]
    /\ \A i \in DOMAIN StyleTables : uiConfig.style \in DOMAIN StyleTables[i]
    /\ StyleSentence(uiConfig.style) # << >>
    /\ uiConfig.duration \in DurationBranches


\* C29: while the search text is a non-empty Q, the search request in flight,
\* if there is one, carries Q, and once it has settled the list shown is the
\* server's search result for Q.
C29_SearchCarriesTheNewText ==
    Trim(searchQuery) # EmptyText =>
        IF IsDefined(searchFetch)
        THEN searchFetch = Some(searchQuery)
        ELSE filteredTemplates = searchTemplates(storage, searchQuery)
====
